---- MODULE Spec2Model ----
(***************************************************************************)
(* Model of the pybravia client session (src/pybravia/client.py, class     *)
(* BraviaTV): connection lifecycle, the HTTP transport primitive, the REST *)
(* and IRCC encoders, the IRCC wake heuristic and the command-name cache.  *)
(*                                                                         *)
(* Python values are modelled as follows.                                  *)
(*   - Optional values: None is the empty sequence, a present value v is   *)
(*     the one-element sequence <<v>> (so None differs from the empty      *)
(*     string and from the empty mapping).                                 *)
(*   - Strings that the code slices or tests for emptiness (pin, psk, mac, *)
(*     IRCC codes) are sequences of one-character strings.                 *)
(*   - Mappings (dict) are functions over strings; the empty mapping is    *)
(*     the empty function.                                                 *)
(*   - Time is counted in minutes.                                         *)
(***************************************************************************)
EXTENDS Integers, Sequences, FiniteSets, TLC

VARIABLES
    mac,             \* self.mac
    session,         \* self._session: None or the transport handle
    auth,            \* self._auth: None or a BasicAuth
    psk,             \* self._psk
    send_ircc_time,  \* self._send_ircc_time
    commands,        \* self._commands
    jar,             \* cookie jar of the current transport handle
    closed,          \* transport handles on which close() has been called
    made,            \* number of ClientSession objects created by send_req
    now,             \* the wall clock, datetime.now()
    irccAt,          \* history: clock reading at the start of the last non-empty IRCC send
    tasks,           \* the calls suspended at an await: a send_req awaiting its
                     \* response, a disconnect awaiting close()
    last             \* history: the last completed operation: its name, arguments,
                     \* outcome and requests, and whether it started with a
                     \* Basic-auth credential and with stored cookies

vars == <<mac, session, auth, psk, send_ircc_time, commands, jar, closed,
          made, now, irccAt, tasks, last>>

-----------------------------------------------------------------------------
(* Bounds of the model *)

MaxTime == 20       \* the clock stops advancing here
MaxHandles == 2     \* ClientSession objects send_req may create in one run
MaxItems == 120     \* the largest content count a source reports (three pages)
TickMinutes == 5    \* granularity of the clock

-----------------------------------------------------------------------------
(* Python helpers *)

None == <<>>
Some(v) == <<v>>
Val(o) == o[1]

EmptyDict == <<>>
EmptyStr == <<>>

HasKey(d, k) == k \in DOMAIN d
\* dict.get(k, default)
Get(d, k, default) == IF HasKey(d, k) THEN d[k] ELSE default

\* truth value of an optional string: None and "" are falsy
StrTruthy(o) == o # None /\ Val(o) # EmptyStr

\* s[:n] and s[n:] on a string
Prefix(str, n) == SubSeq(str, 1, IF Len(str) < n THEN Len(str) ELSE n)
Suffix(str, n) == SubSeq(str, n + 1, Len(str))

\* Python values handed to send_rest_req as params, tagged with their type
PyNone == [t |-> "none"]
PyList(items) == [t |-> "list", v |-> items]
PyDict(d) == [t |-> "dict", v |-> d]
PyStr(str) == [t |-> "str", v |-> str]
PyInt(n) == [t |-> "int", v |-> n]
PyBool(b) == [t |-> "bool", v |-> b]

\* truth value of a Python value
PyTruthy(p) ==
    CASE p.t = "none" -> FALSE
      [] p.t = "list" -> p.v # <<>>
      [] p.t = "dict" -> DOMAIN p.v # {}
      [] p.t = "str" -> p.v # EmptyStr
      [] p.t = "int" -> p.v # 0
      [] p.t = "bool" -> p.v

-----------------------------------------------------------------------------
(* Constants of the program *)

DEFAULT_TIMEOUT == 10
DEFAULT_VERSION == "1.0"
CODE_POWER_ON == "AAAAAQAAAAEAAAAuAw=="
PAIR_PIN == <<"0", "0", "0", "0">>
SERVICE_ACCESS_CONTROL == "accessControl"
SERVICE_APP_CONTROL == "appControl"
SERVICE_AV_CONTENT == "avContent"
SERVICE_SYSTEM == "system"
PAGE_SIZE == 50           \* client.py:385 and 397-398
PSK_MARKER == <<"p", "s", "k", ":">>
WAKE_INTERVAL == 10      \* timedelta(minutes=10)
WOL_PORT == 9            \* client.py:130

\* the exception classes of exceptions.py; every one derives from BraviaTVError
BraviaTVError ==
    {"BraviaTVError", "BraviaTVAuthError", "BraviaTVNotFound", "BraviaTVNotSupported",
     "BraviaTVConnectionError", "BraviaTVConnectionTimeout", "BraviaTVTurnedOff"}

OK == "OK"      \* an operation that raised nothing

-----------------------------------------------------------------------------
(* util.py: cookie normalisation.  A Set-Cookie header is a sequence of      *)
(* pieces separated by ";": piece 1 is name=value, the others are            *)
(* attributes; sp is the number of blanks between the ";" and the piece.     *)

Lower(k) == IF k \in {"expires", "Expires", "EXPIRES"} THEN "expires" ELSE k

\* a piece at which REGEXP_COOKIE_EXPIRES = (;\s?expires=(.*)(;|$)) starts to match
ExpiresAt(header, i) ==
    i > 1 /\ header[i].sp <= 1 /\ Lower(header[i].k) = "expires"

\* REGEXP_COOKIE_EXPIRES.sub("", cookie): the greedy (.*) runs to the end of
\* the header, so the first match removes everything from its ";" on
StripExpires(header) ==
    LET hits == {i \in DOMAIN header : ExpiresAt(header, i)}
    IN  IF hits = {} THEN header
        ELSE SubSeq(header, 1, (CHOOSE i \in hits : \A j \in hits : i <= j) - 1)

\* SimpleCookie.load of one stripped header: the cookie and its attributes
LoadCookie(header) ==
    [name |-> header[1].k, value |-> header[1].v,
     attrs |-> {<<header[i].k, header[i].v>> : i \in 2..Len(header)}]

normalize_cookies(cookies) ==
    {LoadCookie(StripExpires(cookies[i])) : i \in DOMAIN cookies}

\* CookieJar.update_cookies: a cookie replaces the stored one of the same name
UpdateCookies(cookieJar, new) ==
    {c \in cookieJar : \A n \in new : n.name # c.name} \cup new

-----------------------------------------------------------------------------
(* The session object.  The operations below are functions of a record s   *)
(* holding the fields of the client (mac, session, auth, psk,              *)
(* send_ircc_time, commands), the transport's state (jar, closed, made),   *)
(* the responses the device gives to the next requests (inbox), the        *)
(* requests sent so far by the running operation with the response each    *)
(* got (log), and starved, set when a request found the inbox empty.       *)
(* An operation yields [s, err, val]: the session after it, the exception  *)
(* it raised (OK if none) and the value it returned.                       *)

Raise(s, e) == [s |-> s, err |-> e, val |-> None]
Return(s, v) == [s |-> s, err |-> OK, val |-> v]

\* the answer to a request that found the inbox empty
NoResp == [exc |-> "starved", status |-> 0, body |-> EmptyDict, cookies |-> <<>>]

\* the classes an exception raised by ClientSession.post is an instance of
ExcClasses(e) ==
    CASE e = "ClientError" -> {"ClientError"}
      [] e = "ConnectionError" -> {"ConnectionError", "OSError"}
      [] e = "TimeoutError" -> {"TimeoutError"}
      [] OTHER -> {}

\* faulty variant: the timeout clause raises the connection error
MapException_TimeoutAsError(e) ==
    IF "ClientError" \in ExcClasses(e) THEN "BraviaTVConnectionError"
    ELSE IF "ConnectionError" \in ExcClasses(e) THEN "BraviaTVConnectionError"
    ELSE IF "TimeoutError" \in ExcClasses(e) THEN "BraviaTVConnectionError"
    ELSE e

\* client.py:190-198, the except clauses of send_req in their order
MapException(e) ==
    IF "ClientError" \in ExcClasses(e) THEN "BraviaTVConnectionError"
    ELSE IF "ConnectionError" \in ExcClasses(e) THEN "BraviaTVConnectionError"
    ELSE IF "TimeoutError" \in ExcClasses(e) THEN "BraviaTVConnectionTimeout"
    ELSE e

\* client.py:182-184, "not power-on" in result.get("error", [])
NotPowerOn(error) == \E i \in DOMAIN error : error[i] = "not power-on"

\* faulty variant: every status other than 200 is an error
StatusError_OtherRaises(status, json, result) ==
    IF status = 200 /\ json /\ NotPowerOn(Get(result, "error", <<>>))
    THEN "BraviaTVTurnedOff"
    ELSE IF status = 404 THEN "BraviaTVNotFound"
    ELSE IF status \in {401, 403} THEN "BraviaTVAuthError"
    ELSE IF status # 200 THEN "BraviaTVError"
    ELSE OK

\* faulty variant: the payload of a 200 response is never inspected
StatusError_NoPowerCheck(status, json, result) ==
    IF status = 404 THEN "BraviaTVNotFound"
    ELSE IF status \in {401, 403} THEN "BraviaTVAuthError"
    ELSE OK

\* faulty variant: status 403 is not treated as an auth error
StatusError_Without403(status, json, result) ==
    IF status = 200 /\ json /\ NotPowerOn(Get(result, "error", <<>>))
    THEN "BraviaTVTurnedOff"
    ELSE IF status = 404 THEN "BraviaTVNotFound"
    ELSE IF status = 401 THEN "BraviaTVAuthError"
    ELSE OK

\* client.py:179-189, the error send_req raises (OK if none) for the status of
\* a response that arrived and its result
StatusError(status, json, result) ==
    IF status = 200 /\ json /\ NotPowerOn(Get(result, "error", <<>>))
    THEN "BraviaTVTurnedOff"
    ELSE IF status = 404 THEN "BraviaTVNotFound"
    ELSE IF status \in {401, 403} THEN "BraviaTVAuthError"
    ELSE OK

\* faulty variant: every request opens a transport handle of its own
EnsureSession_AlwaysNew(s) ==
    [s EXCEPT !.session = Some(s.made + 1), !.made = s.made + 1, !.jar = {}]

\* client.py:144-147
EnsureSession(s) ==
    IF s.session = None
    THEN [s EXCEPT !.session = Some(s.made + 1), !.made = s.made + 1, !.jar = {}]
    ELSE s

\* client.py:152-153
PskHeader(s, h) ==
    IF StrTruthy(s.psk) THEN ("X-Auth-PSK" :> Val(s.psk)) @@ h ELSE h

\* client.py:149-156
RequestHeaders(s, headers) ==
    ("Cache-Control" :> "no-cache") @@ ("Connection" :> "keep-alive")
    @@ PskHeader(s, IF headers = None THEN EmptyDict ELSE Val(headers))

\* client.py:172-177
MergeCookies(s, resp) ==
    IF resp.cookies # <<>>
    THEN [s EXCEPT !.jar = UpdateCookies(@, normalize_cookies(resp.cookies))]
    ELSE s

\* client.py:160-168, the POST: the request goes out with the session's
\* credentials and the device's next answer comes in
Post(s, url, data, headers, json, timeout) ==
    LET starved == s.inbox = <<>>
        resp == IF starved THEN NoResp ELSE Head(s.inbox)
    IN  [resp |-> resp,
         s |-> [s EXCEPT !.inbox = IF starved THEN <<>> ELSE Tail(@),
                         !.starved = @ \/ starved,
                         !.log = Append(@, [url |-> url, json |-> json, data |-> data,
                                            headers |-> RequestHeaders(s, headers),
                                            timeout |-> timeout, auth |-> s.auth,
                                            handle |-> Val(s.session), resp |-> resp])]]

\* faulty variant: the parsed body of a 200 response is not kept
Result_BodyDropped(resp, json) == IF json THEN EmptyDict ELSE resp.status = 200

\* client.py:142 and 180, the value send_req returns for a response
Result(resp, json) ==
    IF resp.status = 200
    THEN (IF json THEN resp.body ELSE TRUE)
    ELSE (IF json THEN EmptyDict ELSE FALSE)

\* client.py:179-200
Classify(s, e, result) == IF e # OK THEN Raise(s, e) ELSE Return(s, result)

\* faulty variant: the cookies of a response that makes send_req raise are dropped
Receive_MergesOnSuccess(p, json) ==
    IF p.resp.exc # "none" THEN Raise(p.s, MapException(p.resp.exc))
    ELSE IF StatusError(p.resp.status, json, Result(p.resp, json)) # OK
    THEN Raise(p.s, StatusError(p.resp.status, json, Result(p.resp, json)))
    ELSE Return(MergeCookies(p.s, p.resp), Result(p.resp, json))

\* client.py:170-200, what send_req makes of the POST p
Receive(p, json) ==
    IF p.resp.exc # "none" THEN Raise(p.s, MapException(p.resp.exc))
    ELSE Classify(MergeCookies(p.s, p.resp),
                  StatusError(p.resp.status, json, Result(p.resp, json)),
                  Result(p.resp, json))

\* faulty variant: a request that timed out is sent once more
send_req_RetriesTimeout(s, url, data, headers, json, timeout) ==
    IF Receive(Post(EnsureSession(s), url, data, headers, json, timeout), json).err
           = "BraviaTVConnectionTimeout"
    THEN Receive(Post(Receive(Post(EnsureSession(s), url, data, headers, json, timeout),
                              json).s,
                      url, data, headers, json, timeout), json)
    ELSE Receive(Post(EnsureSession(s), url, data, headers, json, timeout), json)

\* client.py:133-200
send_req(s, url, data, headers, json, timeout) ==
    Receive(Post(EnsureSession(s), url, data, headers, json, timeout), json)

\* client.py:249
CoerceParams(params) ==
    IF params.t = "list" THEN params.v
    ELSE IF PyTruthy(params) THEN <<params>> ELSE <<>>

\* client.py:238-259
send_rest_req(s, service, method, params, headers, version, timeout) ==
    send_req(s, <<"sony", service>>,
             [method |-> method, params |-> CoerceParams(params), id |-> 1,
              version |-> version],
             headers, TRUE, timeout)

\* client.py:217-236, the IRCC envelope and its POST
IrccPost(s, code, timeout) ==
    send_req(s, <<"sony", "ircc">>, [IRCCCode |-> code],
             Some(("SOAPACTION" :> "urn:schemas-sony-com:service:IRCC:1#X_SendIRCC")
                  @@ ("Content-Type" :> "text/xml; charset=UTF-8")),
             FALSE, timeout)

\* faulty variant: only the very first send wakes the device
NeedsWake_FirstOnly(s, time) == s.send_ircc_time = None

\* client.py:210-212
NeedsWake(s, time) ==
    s.send_ircc_time = None \/ time - Val(s.send_ircc_time) > WAKE_INTERVAL

\* faulty variant: only connection failures of the ping are suppressed
WakeSuppressed_ConnectionOnly(e) ==
    e \in {"BraviaTVConnectionError", "BraviaTVConnectionTimeout"}

\* client.py:213, suppress(BraviaTVError)
WakeSuppressed(e) == e \in BraviaTVError

\* client.py:215
StampIrcc(s, time) == [s EXCEPT !.send_ircc_time = Some(time)]

\* faulty variant: the wake timestamp is set only when the command went through
AfterPing_StampsOnSuccess(ping, code, timeout, time) ==
    IF ping.err # OK /\ ~WakeSuppressed(ping.err)
    THEN ping
    ELSE IF IrccPost(ping.s, code, timeout).err = OK
    THEN IrccPost(StampIrcc(ping.s, time), code, timeout)
    ELSE IrccPost(ping.s, code, timeout)

\* client.py:213-236, after the wake ping (if any) ended as ping
AfterPing(ping, code, timeout, time) ==
    IF ping.err # OK /\ ~WakeSuppressed(ping.err)
    THEN ping
    ELSE IrccPost(StampIrcc(ping.s, time), code, timeout)

\* client.py:202-236; time is datetime.now() as read at line 209
RECURSIVE send_ircc_req(_, _, _, _)
send_ircc_req(s, code, timeout, time) ==
    IF code # ""
    THEN AfterPing(IF NeedsWake(s, time)
                   THEN send_ircc_req(s, "", DEFAULT_TIMEOUT, time)
                   ELSE Return(s, FALSE),
                   code, timeout, time)
    ELSE IrccPost(s, code, timeout)

\* faulty variant: BasicAuth built with the PIN as login
SetAuth_PinAsLogin(s, pin) ==
    [s EXCEPT !.auth = Some([login |-> pin, password |-> EmptyStr])]

\* client.py:97
SetAuth(s, pin) == [s EXCEPT !.auth = Some([login |-> EmptyStr, password |-> pin])]

\* client.py:98-101
RegisterParams(clientid, nickname) ==
    PyList(<<PyDict([clientid |-> clientid, nickname |-> nickname, level |-> "private"]),
             PyList(<<PyDict([value |-> "yes", function |-> "WOL"])>>)>>)

\* an awaited call whose value is dropped
Discard(r) == IF r.err # OK THEN r ELSE Return(r.s, None)

\* faulty variant: a failed registration restores the credential it found
register_RollsBack(s, pin, clientid, nickname) ==
    IF send_rest_req(SetAuth(s, pin), SERVICE_ACCESS_CONTROL, "actRegister",
                     RegisterParams(clientid, nickname), None, DEFAULT_VERSION,
                     DEFAULT_TIMEOUT).err # OK
    THEN Raise([send_rest_req(SetAuth(s, pin), SERVICE_ACCESS_CONTROL, "actRegister",
                              RegisterParams(clientid, nickname), None, DEFAULT_VERSION,
                              DEFAULT_TIMEOUT).s EXCEPT !.auth = s.auth],
               send_rest_req(SetAuth(s, pin), SERVICE_ACCESS_CONTROL, "actRegister",
                             RegisterParams(clientid, nickname), None, DEFAULT_VERSION,
                             DEFAULT_TIMEOUT).err)
    ELSE Discard(send_rest_req(SetAuth(s, pin), SERVICE_ACCESS_CONTROL, "actRegister",
                               RegisterParams(clientid, nickname), None, DEFAULT_VERSION,
                               DEFAULT_TIMEOUT))

\* client.py:95-106
register(s, pin, clientid, nickname) ==
    Discard(send_rest_req(SetAuth(s, pin), SERVICE_ACCESS_CONTROL, "actRegister",
                          RegisterParams(clientid, nickname), None, DEFAULT_VERSION,
                          DEFAULT_TIMEOUT))

\* faulty variant: pair swallows every typed error
PairSuppressed_Everything(r) == IF r.err \in BraviaTVError THEN Return(r.s, None) ELSE r

\* client.py:110, suppress(BraviaTVAuthError)
PairSuppressed(r) == IF r.err = "BraviaTVAuthError" THEN Return(r.s, None) ELSE r

\* client.py:108-111
pair(s, clientid, nickname) == PairSuppressed(register(s, PAIR_PIN, clientid, nickname))

\* faulty variant: disconnect forgets to reset the pre-shared key
disconnect_KeepsPsk(s) ==
    Return([s EXCEPT !.closed = IF s.session # None THEN @ \cup {Val(s.session)} ELSE @,
                     !.auth = None, !.session = None, !.jar = {}],
           None)

\* faulty variant: disconnect also forgets when the last IRCC command was sent
disconnect_ResetsWake(s) ==
    Return([s EXCEPT !.closed = IF s.session # None THEN @ \cup {Val(s.session)} ELSE @,
                     !.auth = None, !.psk = None, !.session = None, !.jar = {},
                     !.send_ircc_time = None],
           None)

\* client.py:113-119
disconnect(s) ==
    Return([s EXCEPT !.closed = IF s.session # None THEN @ \cup {Val(s.session)} ELSE @,
                     !.auth = None, !.psk = None, !.session = None, !.jar = {}],
           None)

\* client.py:289
SetMac(s, result) ==
    [s EXCEPT !.mac = IF HasKey(result, "macAddr") THEN Some(result.macAddr) ELSE @]

\* client.py:288-290, resp is what send_rest_req returned
SystemInfo(s, resp) ==
    IF Len(Get(resp, "result", <<EmptyDict>>)) = 0 THEN Raise(s, "IndexError")
    ELSE Return(SetMac(s, Get(resp, "result", <<EmptyDict>>)[1]),
                Get(resp, "result", <<EmptyDict>>)[1])

\* an awaited call r followed by Then, unless r raised
Await(r, Then(_, _)) == IF r.err # OK THEN r ELSE Then(r.s, r.val)

\* client.py:285-290
get_system_info(s) ==
    Await(send_rest_req(s, SERVICE_SYSTEM, "getSystemInformation", PyNone, None,
                        DEFAULT_VERSION, DEFAULT_TIMEOUT),
          SystemInfo)

\* client.py:64
ConnectPsk(pin, pskArg) ==
    IF pin # None /\ Val(pin) # EmptyStr /\ Prefix(Val(pin), 4) = PSK_MARKER
    THEN Some(Suffix(Val(pin), 4))
    ELSE pskArg

\* faulty variant: the pre-shared-key branch of connect leaves the cookie jar alone
ClearPinState_KeepsCookies(s) ==
    IF s.session # None THEN [s EXCEPT !.auth = None] ELSE s

\* client.py:80-82
ClearPinState(s) ==
    IF s.session # None THEN [s EXCEPT !.auth = None, !.jar = {}] ELSE s

\* faulty variant: connect accepts any answer to the probe
Supported_Always(s, system_info) == Return(s, None)

\* client.py:85-86
Supported(s, system_info) ==
    IF system_info = EmptyDict THEN Raise(s, "BraviaTVNotSupported") ELSE Return(s, None)

\* client.py:84-86
Probe(s) == Await(get_system_info(s), Supported)

\* client.py:84, after register returned
ProbeNext(s, v) == Probe(s)

\* faulty variant: the probe is sent whether or not the registration succeeded
Establish_ProbesAnyway(s, pin, clientid, nickname) ==
    IF s.psk = None
    THEN IF pin = None \/ clientid = None \/ nickname = None
         THEN Raise(s, "AssertionError")
         ELSE Probe(register(s, Val(pin), Val(clientid), Val(nickname)).s)
    ELSE Probe(ClearPinState(s))

\* client.py:74-86
Establish(s, pin, clientid, nickname) ==
    IF s.psk = None
    THEN IF pin = None \/ clientid = None \/ nickname = None
         THEN Raise(s, "AssertionError")
         ELSE Await(register(s, Val(pin), Val(clientid), Val(nickname)), ProbeNext)
    ELSE Probe(ClearPinState(s))

\* client.py:56-93
connect(s, pin, pskArg, clientid, nickname) ==
    Establish([s EXCEPT !.psk = ConnectPsk(pin, pskArg)], pin, clientid, nickname)

\* client.py:317
RemoteInfo(s, resp) == Return(s, Get(resp, "result", <<EmptyDict, <<>>>>))

\* client.py:314-318
get_remote_info(s) ==
    Await(send_rest_req(s, SERVICE_SYSTEM, "getRemoteControllerInfo", PyNone, None,
                        DEFAULT_VERSION, DEFAULT_TIMEOUT),
          RemoteInfo)

\* client.py:323, {x["name"]: x["value"] for x in entries}: a later entry
\* of the same name wins
CommandDict(entries) ==
    [n \in {entries[i].name : i \in DOMAIN entries} |->
        entries[CHOOSE i \in DOMAIN entries :
                    /\ entries[i].name = n
                    /\ \A j \in DOMAIN entries : entries[j].name = n => j <= i].value]

\* client.py:323
CommandList(s, result) ==
    IF Len(result) < 2 THEN Raise(s, "IndexError")
    ELSE IF \E i \in DOMAIN result[2] :
                ~(HasKey(result[2][i], "name") /\ HasKey(result[2][i], "value"))
         THEN Raise(s, "KeyError")
    ELSE Return(s, CommandDict(result[2]))

\* client.py:320-323
get_command_list(s) == Await(get_remote_info(s), CommandList)

\* client.py:328-329
Lookup(s, list, command) ==
    Return([s EXCEPT !.commands = list],
           IF HasKey(list, command) THEN Some(list[command]) ELSE None)

\* faulty variant: every lookup fetches the table
get_command_code_AlwaysFetches(s, command) ==
    Await(get_command_list(s), LAMBDA s1, list : Lookup(s1, list, command))

\* client.py:325-329
get_command_code(s, command) ==
    Await(IF s.commands = EmptyDict THEN get_command_list(s) ELSE Return(s, s.commands),
          LAMBDA s1, list : Lookup(s1, list, command))

\* faulty variant: an unknown name is sent as the empty code
SendCode_EmptyForUnknown(s, code, time) ==
    send_ircc_req(s, IF code = None THEN "" ELSE Val(code), DEFAULT_TIMEOUT, time)

\* client.py:269-271
SendCode(s, code, time) ==
    IF code = None THEN Return(s, FALSE)
    ELSE send_ircc_req(s, Val(code), DEFAULT_TIMEOUT, time)

\* client.py:266-271
send_command(s, command, time) ==
    Await(get_command_code(s, command), LAMBDA s1, code : SendCode(s1, code, time))

\* str.replace(old, ""): every occurrence of the character is removed
Remove(str, old) == SelectSeq(str, LAMBDA c : c # old)

\* str * n
RECURSIVE Repeat(_, _)
Repeat(str, n) == IF n <= 0 THEN EmptyStr ELSE str \o Repeat(str, n - 1)

HexDigits ==
    <<"0", "1", "2", "3", "4", "5", "6", "7", "8", "9", "A", "B", "C", "D", "E", "F">>
HexLower == <<"a", "b", "c", "d", "e", "f">>

IsHexDigit(c) ==
    (\E i \in DOMAIN HexDigits : HexDigits[i] = c)
    \/ (\E i \in DOMAIN HexLower : HexLower[i] = c)

HexValue(c) ==
    IF \E i \in DOMAIN HexDigits : HexDigits[i] = c
    THEN (CHOOSE i \in DOMAIN HexDigits : HexDigits[i] = c) - 1
    ELSE (CHOOSE i \in DOMAIN HexLower : HexLower[i] = c) + 9

\* bytes.fromhex accepts pairs of hexadecimal digits and raises ValueError
\* for anything else (the strings here hold no whitespace)
IsHex(str) == Len(str) % 2 = 0 /\ \A i \in DOMAIN str : IsHexDigit(str[i])

\* bytes.fromhex(str) of a string it accepts
FromHex(str) ==
    [i \in 1..(Len(str) \div 2) |-> 16 * HexValue(str[2 * i - 1]) + HexValue(str[2 * i])]

\* faulty variant: the packet lacks the six leading 0xFF bytes
MagicHex_NoHeader(macAddr) == Repeat(Remove(macAddr, ":"), 16)

\* client.py:125-126, the text handed to bytes.fromhex
MagicHex(macAddr) == Repeat(<<"F">>, 12) \o Repeat(Remove(macAddr, ":"), 16)

\* client.py:128-130, the datagram handed to the socket
\* (before: the HTTP requests the running operation had sent by then)
Datagram(payload, before) ==
    [family |-> "AF_INET", type |-> "SOCK_DGRAM", broadcast |-> TRUE,
     host |-> "<broadcast>", port |-> WOL_PORT, payload |-> payload, before |-> before]

\* client.py:121-131; wol is what the socket does with the magic packet
send_wol_req(s, wol) ==
    IF s.mac = None THEN Return(s, FALSE)
    ELSE IF ~IsHex(MagicHex(Val(s.mac))) THEN Raise(s, "ValueError")
    ELSE IF wol # "sent" THEN Raise(s, wol)
    ELSE Return([s EXCEPT !.packets = Append(@, Datagram(FromHex(MagicHex(Val(s.mac))),
                                                          Len(s.log)))],
                TRUE)

\* client.py:276-277
PowerStatus(s, resp) ==
    IF Len(Get(resp, "result", <<EmptyDict>>)) = 0 THEN Raise(s, "IndexError")
    ELSE Return(s, Get(Get(resp, "result", <<EmptyDict>>)[1], "status", "off"))

\* client.py:273-277
get_power_status(s) ==
    Await(send_rest_req(s, SERVICE_SYSTEM, "getPowerStatus", PyNone, None,
                        DEFAULT_VERSION, 5),
          PowerStatus)

\* faulty variant: any non-empty response counts as success
Quick_NonEmpty(s, resp) == Return(s, resp # EmptyDict)

\* client.py:264
Quick(s, resp) == Return(s, HasKey(resp, "result"))

\* client.py:261-264
send_rest_quick(s, service, method, params) ==
    Await(send_rest_req(s, service, method, params, None, DEFAULT_VERSION,
                        DEFAULT_TIMEOUT),
          Quick)

\* client.py:457-461
set_power_status(s, status) ==
    send_rest_quick(s, SERVICE_SYSTEM, "setPowerStatus", PyDict([status |-> status]))

\* client.py:477 and 479, with suppress(BraviaTVError): r, then Then unless r
\* raised something else
Suppressed(r, Then(_)) ==
    IF r.err # OK /\ r.err \notin BraviaTVError THEN r ELSE Then(r.s)

\* faulty variant: the IRCC power code goes out before setPowerStatus
PowerOn_IrccFirst(s, status, time) ==
    IF status # "active"
    THEN Suppressed(send_ircc_req(s, CODE_POWER_ON, DEFAULT_TIMEOUT, time),
             LAMBDA s1 : Suppressed(set_power_status(s1, TRUE),
                             LAMBDA s2 : Return(s2, TRUE)))
    ELSE Return(s, TRUE)

\* client.py:476-481, after get_power_status returned status
PowerOn(s, status, time) ==
    IF status # "active"
    THEN Suppressed(set_power_status(s, TRUE),
             LAMBDA s1 : Suppressed(send_ircc_req(s1, CODE_POWER_ON, DEFAULT_TIMEOUT, time),
                             LAMBDA s2 : Return(s2, TRUE)))
    ELSE Return(s, TRUE)

\* client.py:476
QueryPower(s, time) ==
    Await(get_power_status(s), LAMBDA s1, status : PowerOn(s1, status, time))

\* client.py:473-481
turn_on(s, wol, time) ==
    Await(send_wol_req(s, wol), LAMBDA s1, sent : QueryPower(s1, time))

\* client.py:557-559
aenter(s) == Return(s, None)

\* faulty variant: leaving the scope does not disconnect
aexit_NoDisconnect(s, exc) == Return(s, None)

\* client.py:561-565; the value returned is None, so exc is not suppressed
aexit(s, exc) == Discard(disconnect(s))

\* the end of "async with": __aexit__ ran as exit after the body ended as body;
\* the body's exception is re-raised unless __aexit__ returned a true value
Leave(body, exit) ==
    IF exit.err # OK THEN exit
    ELSE IF body.err # OK /\ exit.val = None THEN Raise(exit.s, body.err)
    ELSE Return(exit.s, body.val)

\* "async with client:" around Body, client.py:557-565
async_with(s, Body(_)) ==
    Leave(Body(aenter(s).s), aexit(Body(aenter(s).s).s, Body(aenter(s).s).err))

\* a body as in scripts/psk-connect.py: connect, then, unless it returns
\* early, a query
ScopeBody(s, args, early) ==
    Await(connect(s, args[1], args[2], args[3], args[4]),
          LAMBDA s1, v : IF early THEN Return(s1, None) ELSE get_system_info(s1))

\* client.py:378-379, resp is what send_rest_req returned
ContentCount(s, resp) ==
    IF Len(Get(resp, "result", <<EmptyDict>>)) = 0 THEN Raise(s, "IndexError")
    ELSE Return(s, Get(Get(resp, "result", <<EmptyDict>>)[1], "count", 0))

\* client.py:371-379
get_content_count(s, source) ==
    Await(send_rest_req(s, SERVICE_AV_CONTENT, "getContentCount",
                        PyDict([source |-> source]), None, DEFAULT_VERSION,
                        DEFAULT_TIMEOUT),
          ContentCount)

\* client.py:390-391
ContentList(s, resp) ==
    IF Len(Get(resp, "result", <<(<<>>)>>)) = 0 THEN Raise(s, "IndexError")
    ELSE Return(s, Get(resp, "result", <<(<<>>)>>)[1])

\* client.py:381-391
get_content_list(s, source, index, count) ==
    Await(send_rest_req(s, SERVICE_AV_CONTENT, "getContentList",
                        PyDict([source |-> source, stIdx |-> index, cnt |-> count]),
                        None, DEFAULT_VERSION, DEFAULT_TIMEOUT),
          ContentList)

Min(a, b) == IF a <= b THEN a ELSE b

\* faulty variant: every page asks for a full batch
PageCount_FullBatch(total, index) == PAGE_SIZE

\* client.py:398
PageCount(total, index) == Min(PAGE_SIZE, total - index)

\* client.py:397-400, the loop over range(0, total, 50) from index on
RECURSIVE Pages(_, _, _, _, _)
Pages(s, source, total, index, result) ==
    IF index >= total THEN Return(s, result)
    ELSE Await(get_content_list(s, source, index, PageCount(total, index)),
               LAMBDA s1, resp : Pages(s1, source, total, index + PAGE_SIZE,
                                       result \o resp))

\* client.py:393-401
get_content_list_full(s, source) ==
    Await(get_content_count(s, source),
          LAMBDA s1, total : Pages(s1, source, total, 0, <<>>))

\* faulty variant: without a handle the cookies are dropped silently
MergeInto_SkipsWithoutHandle(s, resp) ==
    IF resp.cookies = <<>> \/ s.session = None THEN Return(s, None)
    ELSE Return(MergeCookies(s, resp), None)

\* client.py:172-177 when the call was suspended at the POST: self._session is
\* read again after the await, and is None once a disconnect has completed
MergeInto(s, resp) ==
    IF resp.cookies = <<>> THEN Return(s, None)
    ELSE IF s.session = None THEN Raise(s, "AttributeError")
    ELSE Return(MergeCookies(s, resp), None)

\* client.py:170-200, send_req from the point where the POST resumes with resp
Resume(s, resp, json) ==
    IF resp.exc # "none" THEN Raise(s, MapException(resp.exc))
    ELSE Await(MergeInto(s, resp),
               LAMBDA s1, v : Classify(s1, StatusError(resp.status, json, Result(resp, json)),
                                       Result(resp, json)))

-----------------------------------------------------------------------------
(* Inputs: the arguments callers pass and the answers the device gives *)

MAC1 == <<"A", "A", ":", "B", "B", ":", "C", "C", ":", "D", "D", ":", "E", "E", ":", "F", "F">>
MAC2 == <<"0", "1", ":", "2", "3", ":", "4", "5", ":", "6", "7", ":", "8", "9", ":", "A", "B">>
PIN1 == <<"1", "2", "3", "4">>
KEY1 == <<"k", "1">>
CLIENTID == "test_client"
NICKNAME == "test_nickname"
CODE_PLAY == "AAAAAgAAAJcAAAAaAw=="

\* connect(pin, psk, clientid and nickname given or not)
ConnectArgs ==
    {<<Some(PIN1), None, TRUE>>,                 \* PIN
     <<None, Some(KEY1), FALSE>>,                \* pre-shared key
     <<Some(PSK_MARKER \o KEY1), None, FALSE>>,  \* pre-shared key in the pin
     <<None, Some(EmptyStr), FALSE>>,            \* empty pre-shared key
     <<Some(PSK_MARKER), None, TRUE>>,           \* empty pre-shared key in the pin
     <<Some(PIN1), Some(KEY1), TRUE>>,           \* both: the key wins
     <<Some(PIN1), None, FALSE>>}                \* PIN without clientid and nickname
CommandNames == {"Play", "Unknown"}
IrccCodes == {"", CODE_PLAY}

InfoFull == [macAddr |-> MAC2, model |-> "KD-55"]
InfoNoMac == [model |-> "KD-55"]
CommandTable == <<[type |-> "RM-J1100"], <<[name |-> "Play", value |-> CODE_PLAY]>>>>

AuthCookie ==
    <<[k |-> "auth", v |-> "61cf", sp |-> 0], [k |-> "path", v |-> "/sony/", sp |-> 1],
      [k |-> "max-age", v |-> "1209600", sp |-> 1],
      [k |-> "expires", v |-> "Fr., 12 Aug 2022 10:00:00 GMT+00:00", sp |-> 1]>>

Bodies ==
    {[result |-> <<InfoFull>>], [result |-> <<InfoNoMac>>], [result |-> <<EmptyDict>>],
     [result |-> CommandTable], EmptyDict, [error |-> <<"7", "not power-on">>]}

Arrived(status, body, cookies) ==
    [exc |-> "none", status |-> status, body |-> body, cookies |-> cookies]
Failed(exc) == [exc |-> exc, status |-> 0, body |-> EmptyDict, cookies |-> <<>>]

Errors == {"ClientError", "ConnectionError", "TimeoutError"}
Statuses == {200, 401, 403, 404, 500}

\* every answer to one request
Responses ==
    {Failed(e) : e \in Errors}
    \cup {Arrived(st, b, c) : st \in Statuses, b \in Bodies, c \in {<<>>, <<AuthCookie>>}}

\* the answers drawn for the lifecycle operations
LifeAnswers ==
    {Failed("TimeoutError"), Arrived(401, EmptyDict, <<>>), Arrived(500, EmptyDict, <<>>),
     Arrived(200, EmptyDict, <<>>),
     Arrived(200, [result |-> <<EmptyDict>>], <<>>),
     Arrived(200, [result |-> <<InfoFull>>], <<AuthCookie>>),
     Arrived(200, [error |-> <<"7", "not power-on">>], <<>>)}

\* the answers drawn for the command cache
CacheAnswers ==
    {Failed("TimeoutError"), Arrived(401, EmptyDict, <<>>), Arrived(200, EmptyDict, <<>>),
     Arrived(200, [result |-> <<InfoFull>>], <<>>),
     Arrived(200, [result |-> CommandTable], <<>>)}

\* the answers drawn for IRCC requests
IrccAnswers ==
    {Failed(e) : e \in Errors}
    \cup {Arrived(st, EmptyDict, <<>>) : st \in Statuses}

\* what the socket does with the magic packet
WolOutcomes == {"sent", "OSError"}

\* the answers drawn while the device is switched on
PowerAnswers ==
    {Failed("TimeoutError"), Arrived(403, EmptyDict, <<>>), Arrived(200, EmptyDict, <<>>),
     Arrived(200, [result |-> <<[status |-> "active"]>>], <<>>)}

\* the connect arguments of a scope's body: a key, or a PIN
ScopeArgs ==
    {<<None, Some(KEY1), None, None>>, <<Some(PIN1), None, Some(CLIENTID), Some(NICKNAME)>>}

\* the answers drawn inside a scope
ScopeAnswers ==
    {Failed("TimeoutError"), Arrived(401, EmptyDict, <<>>),
     Arrived(200, [result |-> <<EmptyDict>>], <<>>),
     Arrived(200, [result |-> <<InfoFull>>], <<AuthCookie>>)}

\* the answers drawn for a quick REST request
QuickAnswers ==
    {Failed("ConnectionError"), Arrived(404, EmptyDict, <<>>), Arrived(200, EmptyDict, <<>>),
     Arrived(200, [result |-> <<EmptyDict>>], <<>>)}

\* the params callers hand to send_rest_req: nothing, lists, and bare values
\* of every type, falsy and truthy
ParamValues ==
    <<PyNone, PyList(<<>>), PyList(<<PyStr(<<"a">>), PyInt(0)>>),
      PyInt(0), PyInt(5), PyBool(FALSE), PyBool(TRUE),
      PyStr(EmptyStr), PyStr(<<"a">>), PyDict(EmptyDict), PyDict([uri |-> "tv:dvbt"])>>

\* the answers drawn for REST requests
RestAnswers ==
    {Failed("ConnectionError"), Arrived(404, EmptyDict, <<>>),
     Arrived(500, [result |-> <<EmptyDict>>], <<>>),
     Arrived(200, EmptyDict, <<>>),
     Arrived(200, [result |-> <<EmptyDict>>], <<>>),
     Arrived(200, [error |-> <<"12", "getLEDIndicatorStatus">>], <<>>)}

\* the sources a caller lists
Sources == {"tv:dvbt", "extInput:hdmi"}

\* the item counts a source reports: none, and both sides of every batch
\* boundary up to three batches
Counts == {0, 1, PAGE_SIZE, PAGE_SIZE + 1, 2 * PAGE_SIZE, MaxItems}

\* the answers drawn for getContentCount
CountAnswers ==
    {Failed("TimeoutError"), Arrived(200, EmptyDict, <<>>)}
    \cup {Arrived(200, [result |-> <<[count |-> n]>>], <<>>) : n \in Counts}

\* the answers drawn for getContentList: a page of items, or a failure
PageAnswers ==
    {Failed("ConnectionError"), Arrived(404, EmptyDict, <<>>),
     Arrived(200, [result |-> <<(<<>>)>>], <<>>),
     Arrived(200, [result |-> <<(<<[title |-> "a"]>>)>>], <<>>),
     Arrived(200, [result |-> <<(<<[title |-> "b"], [title |-> "c"]>>)>>], <<>>)}

\* the attributes a device puts after name=value in a Set-Cookie header
CookieAttributes ==
    {[k |-> "path", v |-> "/sony/", sp |-> 1],
     [k |-> "max-age", v |-> "1209600", sp |-> 1],
     [k |-> "expires", v |-> "Fr., 12 Aug 2022 10:00:00 GMT+00:00", sp |-> 1],
     [k |-> "Expires", v |-> "Fr., 12 Aug 2022 10:00:00 GMT+00:00", sp |-> 0]}

\* Set-Cookie headers: name=value followed by up to three different
\* attributes in any order
CookieHeaders ==
    {<<[k |-> "auth", v |-> "61cf", sp |-> 0]>> \o attrs :
        attrs \in {a \in UNION {[1..n -> CookieAttributes] : n \in 0..3} :
                      \A i, j \in DOMAIN a : a[i] = a[j] => i = j}}

\* responses that carry one Set-Cookie header
CookieAnswers == {Arrived(200, EmptyDict, <<h>>) : h \in CookieHeaders}

\* the hardware addresses a caller constructs the client with: colon
\* notation in either case, bare digits, dash notation, and the empty string
MAC_LOWER ==
    <<"a", "a", ":", "b", "b", ":", "c", "c", ":", "d", "d", ":", "e", "e", ":", "f", "f">>
MAC_BARE == <<"0", "1", "2", "3", "4", "5", "6", "7", "8", "9", "A", "B">>
MAC_DASH ==
    <<"A", "A", "-", "B", "B", "-", "C", "C", "-", "D", "D", "-", "E", "E", "-", "F", "F">>
WolMacs == {MAC1, MAC_LOWER, MAC_BARE, MAC_DASH, EmptyStr}

\* the answers drawn for a key press: accepted, or lost
PlayAnswers == {Arrived(200, EmptyDict, <<>>), Failed("TimeoutError")}

\* what a POST resumes with when a disconnect ran meanwhile: the transport
\* failed the request, or the response had arrived already
RaceAnswers ==
    {Failed("ClientError"), Failed("TimeoutError"),
     Arrived(200, EmptyDict, <<>>),
     Arrived(200, [result |-> <<InfoFull>>], <<AuthCookie>>),
     Arrived(401, EmptyDict, <<AuthCookie>>)}

-----------------------------------------------------------------------------
(* The state machine: one action per public operation, run to completion *)

\* no call is suspended
NoRequest ==
    [stage |-> "idle", json |-> FALSE, handle |-> None, overlapped |-> FALSE,
     resumedOn |-> None, resumedClosed |-> FALSE, merged |-> FALSE,
     resp |-> NoResp, err |-> OK, val |-> None]
NoTasks == [req |-> NoRequest, closing |-> FALSE]

Session ==
    [mac |-> mac, session |-> session, auth |-> auth, psk |-> psk,
     send_ircc_time |-> send_ircc_time, commands |-> commands, jar |-> jar,
     closed |-> closed, made |-> made, inbox |-> <<>>, starved |-> FALSE, log |-> <<>>,
     packets |-> <<>>]

WithInbox(rs) == [Session EXCEPT !.inbox = rs]

\* the operation issued a non-empty IRCC request
SentIrcc(log) ==
    \E i \in DOMAIN log : log[i].url = <<"sony", "ircc">> /\ log[i].data.IRCCCode # ""

\* the transport handle the operation's non-empty IRCC request went through
IrccHandle(log) ==
    log[CHOOSE i \in DOMAIN log :
            log[i].url = <<"sony", "ircc">> /\ log[i].data.IRCCCode # ""].handle

Commit(name, args, r) ==
    /\ ~r.s.starved
    /\ r.s.made <= MaxHandles
    /\ mac' = r.s.mac
    /\ session' = r.s.session
    /\ auth' = r.s.auth
    /\ psk' = r.s.psk
    /\ send_ircc_time' = r.s.send_ircc_time
    /\ commands' = r.s.commands
    /\ jar' = r.s.jar
    /\ closed' = r.s.closed
    /\ made' = r.s.made
    /\ irccAt' = IF SentIrcc(r.s.log) THEN Some(now) ELSE irccAt
    /\ tasks' = tasks
    /\ last' = [op |-> name, args |-> args, err |-> r.err, val |-> r.val,
                log |-> r.s.log, at |-> now, prev |-> irccAt,
                pre |-> [auth |-> auth # None, cookies |-> jar # {}],
                packets |-> r.s.packets,
                on |-> IF SentIrcc(r.s.log) THEN Some(IrccHandle(r.s.log)) ELSE last.on,
                prevOn |-> last.on]

\* Run operation Op with as many device responses as it asks for (at most 4)
Settle(r, name, args, more) ==
    IF r.s.starved THEN more ELSE Commit(name, args, r)

Run(Op(_), name, args, answers) ==
    Settle(Op(WithInbox(<<>>)), name, args,
        \E a \in answers :
            Settle(Op(WithInbox(<<a>>)), name, args,
                \E b \in answers :
                    Settle(Op(WithInbox(<<a, b>>)), name, args,
                        \E c \in answers :
                            Settle(Op(WithInbox(<<a, b, c>>)), name, args,
                                \E d \in answers :
                                    Commit(name, args, Op(WithInbox(<<a, b, c, d>>)))))))

Init ==
    /\ mac \in {None, Some(MAC1)}
    /\ session \in {None, Some(0)}      \* handle 0: a ClientSession given to __init__
    /\ auth = None
    /\ psk = None
    /\ send_ircc_time = None
    /\ commands = EmptyDict
    /\ jar = {}
    /\ closed = {}
    /\ made = 0
    /\ now = 0
    /\ irccAt = None
    /\ tasks = NoTasks
    /\ last = [op |-> "init", args |-> <<>>, err |-> OK, val |-> None, log |-> <<>>,
               at |-> 0, prev |-> None,
               pre |-> [auth |-> FALSE, cookies |-> FALSE], packets |-> <<>>,
               on |-> None, prevOn |-> None]

Connect ==
    /\ UNCHANGED now
    /\ \E a \in ConnectArgs :
           LET clientid == IF a[3] THEN Some(CLIENTID) ELSE None
               nickname == IF a[3] THEN Some(NICKNAME) ELSE None
           IN  Run(LAMBDA s : connect(s, a[1], a[2], clientid, nickname), "connect",
                   <<a[1], a[2], clientid, nickname>>, LifeAnswers)

Register ==
    /\ UNCHANGED now
    /\ Run(LAMBDA s : register(s, PIN1, CLIENTID, NICKNAME), "register",
           <<PIN1, CLIENTID, NICKNAME>>, LifeAnswers)

Pair ==
    /\ UNCHANGED now
    /\ Run(LAMBDA s : pair(s, CLIENTID, NICKNAME), "pair", <<CLIENTID, NICKNAME>>,
           LifeAnswers)

Disconnect ==
    /\ UNCHANGED now
    /\ Run(LAMBDA s : disconnect(s), "disconnect", <<>>, {})

GetSystemInfo ==
    /\ UNCHANGED now
    /\ Run(LAMBDA s : get_system_info(s), "get_system_info", <<>>, LifeAnswers)

\* a session is opened with a pre-shared key
ConnectKey ==
    /\ UNCHANGED now
    /\ Run(LAMBDA s : connect(s, None, Some(KEY1), None, None), "connect",
           <<None, Some(KEY1), None, None>>, CacheAnswers)

GetCommandCode ==
    /\ UNCHANGED now
    /\ \E command \in CommandNames :
           Run(LAMBDA s : get_command_code(s, command), "get_command_code", <<command>>,
               CacheAnswers)

SendCommand ==
    /\ UNCHANGED now
    /\ \E command \in CommandNames :
           Run(LAMBDA s : send_command(s, command, now), "send_command", <<command>>,
               CacheAnswers)

SendIrccReq ==
    /\ UNCHANGED now
    /\ \E code \in IrccCodes :
           Run(LAMBDA s : send_ircc_req(s, code, DEFAULT_TIMEOUT, now), "send_ircc_req",
               <<code>>, IrccAnswers)

SendReq ==
    /\ UNCHANGED now
    /\ \E json \in BOOLEAN :
           Run(LAMBDA s : send_req(s, <<"test">>, EmptyDict, None, json, DEFAULT_TIMEOUT),
               "send_req", <<json>>, Responses)

TurnOn ==
    /\ UNCHANGED now
    /\ \E wol \in WolOutcomes :
           Run(LAMBDA s : turn_on(s, wol, now), "turn_on", <<wol>>, PowerAnswers)

\* the session is used as a scoped resource
WithClient ==
    /\ UNCHANGED now
    /\ \E args \in ScopeArgs, early \in BOOLEAN :
           Run(LAMBDA s : async_with(s, LAMBDA s0 : ScopeBody(s0, args, early)),
               "async_with", <<args, early>>, ScopeAnswers)

SetPowerStatus ==
    /\ UNCHANGED now
    /\ \E status \in BOOLEAN :
           Run(LAMBDA s : set_power_status(s, status), "set_power_status", <<status>>,
               QuickAnswers)

SendRestReq ==
    /\ UNCHANGED now
    /\ \E p \in DOMAIN ParamValues :
           Run(LAMBDA s : send_rest_req(s, SERVICE_APP_CONTROL, "setTextForm",
                                        ParamValues[p], None, DEFAULT_VERSION,
                                        DEFAULT_TIMEOUT),
               "send_rest_req", <<ParamValues[p]>>, RestAnswers)

SendRestQuick ==
    /\ UNCHANGED now
    /\ \E status \in BOOLEAN :
           Run(LAMBDA s : send_rest_quick(s, SERVICE_SYSTEM, "setPowerStatus",
                                          PyDict([status |-> status])),
               "send_rest_quick", <<status>>, RestAnswers)

\* the count answer first, then one answer for every page asked for
GetContentListFull ==
    /\ UNCHANGED now
    /\ \E source \in Sources : \E n \in CountAnswers :
           Settle(get_content_list_full(WithInbox(<<n>>), source),
                  "get_content_list_full", <<source>>,
               \E a \in PageAnswers :
                   Settle(get_content_list_full(WithInbox(<<n, a>>), source),
                          "get_content_list_full", <<source>>,
                       \E b \in PageAnswers :
                           Settle(get_content_list_full(WithInbox(<<n, a, b>>), source),
                                  "get_content_list_full", <<source>>,
                               \E c \in PageAnswers :
                                   Commit("get_content_list_full", <<source>>,
                                          get_content_list_full(
                                              WithInbox(<<n, a, b, c>>), source)))))

\* a request whose response sets a cookie
ReceiveCookies ==
    /\ UNCHANGED now
    /\ Run(LAMBDA s : send_req(s, <<"test">>, EmptyDict, None, TRUE, DEFAULT_TIMEOUT),
           "send_req", <<TRUE>>, CookieAnswers)

\* the client is constructed with any of the hardware addresses, or none
InitWol ==
    /\ mac \in {None} \cup {Some(m) : m \in WolMacs}
    /\ session \in {None, Some(0)}
    /\ auth = None
    /\ psk = None
    /\ send_ircc_time = None
    /\ commands = EmptyDict
    /\ jar = {}
    /\ closed = {}
    /\ made = 0
    /\ now = 0
    /\ irccAt = None
    /\ tasks = NoTasks
    /\ last = [op |-> "init", args |-> <<>>, err |-> OK, val |-> None, log |-> <<>>,
               at |-> 0, prev |-> None,
               pre |-> [auth |-> FALSE, cookies |-> FALSE], packets |-> <<>>,
               on |-> None, prevOn |-> None]

SendWolReq ==
    /\ UNCHANGED now
    /\ \E wol \in WolOutcomes :
           Run(LAMBDA s : send_wol_req(s, wol), "send_wol_req", <<wol>>, {})

\* the caller presses Play
SendPlay ==
    /\ UNCHANGED now
    /\ Run(LAMBDA s : send_ircc_req(s, CODE_PLAY, DEFAULT_TIMEOUT, now), "send_ircc_req",
           <<CODE_PLAY>>, PlayAnswers)

\* client.py:142-168: send_req up to its await of the POST.  A POST through a
\* handle that is being closed raises RuntimeError at once.
StartReq ==
    /\ tasks.req.stage # "awaiting"
    /\ \E json \in BOOLEAN :
           IF session # None /\ Val(session) \in closed
           THEN /\ tasks' = [tasks EXCEPT !.req = [NoRequest EXCEPT
                                 !.stage = "done", !.json = json, !.handle = session,
                                 !.overlapped = tasks.closing, !.resumedOn = session,
                                 !.resumedClosed = TRUE, !.err = "RuntimeError"]]
                /\ UNCHANGED <<session, made, jar>>
           ELSE /\ EnsureSession(Session).made <= MaxHandles
                /\ session' = EnsureSession(Session).session
                /\ made' = EnsureSession(Session).made
                /\ jar' = EnsureSession(Session).jar
                /\ tasks' = [tasks EXCEPT !.req = [NoRequest EXCEPT
                                 !.stage = "awaiting", !.json = json,
                                 !.handle = EnsureSession(Session).session]]
    /\ UNCHANGED <<mac, auth, psk, send_ircc_time, commands, closed, now, irccAt, last>>

\* the value r returned: the parsed body in JSON mode, a bool in raw mode
Returned(r, json) ==
    IF r.err # OK THEN None ELSE IF json THEN r.val ELSE PyBool(r.val)

\* client.py:170-200: the suspended send_req resumes and runs to its end
ResumeReq ==
    /\ tasks.req.stage = "awaiting"
    /\ \E a \in RaceAnswers :
           /\ jar' = Resume(Session, a, tasks.req.json).s.jar
           /\ tasks' = [tasks EXCEPT !.req = [@ EXCEPT
                            !.stage = "done", !.resp = a,
                            !.resumedOn = session,
                            !.resumedClosed = session # None /\ Val(session) \in closed,
                            !.merged = a.exc = "none" /\ a.cookies # <<>> /\ session # None,
                            !.err = Resume(Session, a, tasks.req.json).err,
                            !.val = Returned(Resume(Session, a, tasks.req.json),
                                             tasks.req.json)]]
    /\ UNCHANGED <<mac, session, auth, psk, send_ircc_time, commands, closed, made, now,
                   irccAt, last>>

\* client.py:113-116: disconnect up to its await of close(); without a handle
\* there is nothing to await and disconnect runs to its end
CloseSession ==
    /\ ~tasks.closing
    /\ IF session = None
       THEN /\ auth' = None /\ psk' = None
            /\ UNCHANGED <<closed, tasks>>
       ELSE /\ closed' = closed \cup {Val(session)}
            /\ tasks' = [tasks EXCEPT !.closing = TRUE,
                                      !.req.overlapped = @ \/ tasks.req.stage = "awaiting"]
            /\ UNCHANGED <<auth, psk>>
    /\ UNCHANGED <<mac, session, send_ircc_time, commands, jar, made, now, irccAt, last>>

\* client.py:117-119: disconnect after close() returned
FinishDisconnect ==
    /\ tasks.closing
    /\ auth' = None /\ psk' = None /\ session' = None /\ jar' = {}
    /\ tasks' = [tasks EXCEPT !.closing = FALSE]
    /\ UNCHANGED <<mac, send_ircc_time, commands, closed, made, now, irccAt, last>>

\* time passes between operations
Tick ==
    /\ now + TickMinutes <= MaxTime
    /\ now' = now + TickMinutes
    /\ UNCHANGED <<mac, session, auth, psk, send_ircc_time, commands, jar, closed,
                   made, irccAt, tasks, last>>

\* the connection lifecycle
Next ==
    \/ Connect
    \/ Register
    \/ Pair
    \/ Disconnect
    \/ GetSystemInfo

Spec == Init /\ [][Next]_vars

\* the command-name cache over connect-disconnect cycles
NextCache ==
    \/ ConnectKey
    \/ Disconnect
    \/ GetCommandCode
    \/ SendCommand

SpecCache == Init /\ [][NextCache]_vars

\* IRCC sends as time passes
NextIrcc ==
    \/ SendIrccReq
    \/ Disconnect
    \/ Tick

SpecIrcc == Init /\ [][NextIrcc]_vars

\* the transport primitive on its own
NextReq ==
    \/ SendReq
    \/ Disconnect

SpecReq == Init /\ [][NextReq]_vars

\* switching the device on
NextPower ==
    \/ TurnOn
    \/ Disconnect

SpecPower == Init /\ [][NextPower]_vars

\* scoped use of the session, between operations outside a scope
NextScope ==
    \/ WithClient
    \/ GetSystemInfo
    \/ Disconnect

SpecScope == Init /\ [][NextScope]_vars

\* single requests of every kind: raw, REST, quick REST and IRCC
NextOnce ==
    \/ SendReq
    \/ GetSystemInfo
    \/ SetPowerStatus
    \/ SendIrccReq
    \/ Disconnect

SpecOnce == Init /\ [][NextOnce]_vars

\* REST requests with params of every shape
NextRest ==
    \/ SendRestReq
    \/ SendRestQuick
    \/ Disconnect

SpecRest == Init /\ [][NextRest]_vars

\* paginated content listing
NextContent ==
    \/ GetContentListFull
    \/ Disconnect

SpecContent == Init /\ [][NextContent]_vars

\* cookie normalisation
NextCookies ==
    \/ ReceiveCookies
    \/ Disconnect

SpecCookies == Init /\ [][NextCookies]_vars

\* the cookie store across requests, mode switches and disconnects
NextJar ==
    \/ SendReq
    \/ ConnectKey
    \/ Disconnect

SpecJar == Init /\ [][NextJar]_vars

\* the magic packet
NextWol ==
    \/ SendWolReq
    \/ GetSystemInfo
    \/ Disconnect

SpecWol == InitWol /\ [][NextWol]_vars

\* requests of the three kinds answered with any status
NextDefault ==
    \/ SendReq
    \/ SendRestQuick
    \/ SendIrccReq
    \/ Disconnect

SpecDefault == Init /\ [][NextDefault]_vars

\* IRCC sends across disconnects and new connects, as time passes
NextReconnect ==
    \/ SendPlay
    \/ Disconnect
    \/ ConnectKey
    \/ Tick

SpecReconnect == Init /\ [][NextReconnect]_vars

\* a disconnect interleaved with a request of the same session
NextRace ==
    \/ StartReq
    \/ ResumeReq
    \/ CloseSession
    \/ FinishDisconnect

SpecRace == Init /\ [][NextRace]_vars

-----------------------------------------------------------------------------
(* Vocabulary of the properties *)

Keys == {KEY1, EmptyStr}

IsRest(q, method) == q.json /\ HasKey(q.data, "method") /\ q.data.method = method
IsIrcc(q) == q.url = <<"sony", "ircc">>
IsPing(q) == IsIrcc(q) /\ q.data.IRCCCode = ""

\* the requests of the last operation that satisfy P
Sent(P(_)) == {i \in DOMAIN last.log : P(last.log[i])}

\* the device said "not power-on" in a 200 response
PowerOff(resp) ==
    /\ resp.status = 200
    /\ HasKey(resp.body, "error")
    /\ \E i \in DOMAIN resp.body.error : resp.body.error[i] = "not power-on"

\* the request was answered and the answer is none that send_req turns into an error
Answered(resp) ==
    resp.exc = "none" /\ resp.status \notin {401, 403, 404} /\ ~PowerOff(resp)

\* the result entry of an answer: only a 200 answer is parsed
HasResult(resp) == resp.status = 200 /\ HasKey(resp.body, "result")

\* the last operation was connect in PIN mode / with pre-shared key K
PinConnect(P) ==
    /\ last.op = "connect"
    /\ last.args[1] = Some(P) /\ Prefix(P, 4) # PSK_MARKER /\ last.args[2] = None
    /\ last.args[3] # None /\ last.args[4] # None
KeyConnect(K) ==
    /\ last.op = "connect"
    /\ \/ last.args[1] = None /\ last.args[2] = Some(K)
       \/ last.args[1] = Some(PSK_MARKER \o K)

-----------------------------------------------------------------------------
(* C1: at every operation boundary at most one credential is set: the      *)
(* Basic-auth PIN credential and the pre-shared key are never both         *)
(* non-empty.                                                              *)
C1_AtMostOneCredential == ~(auth # None /\ StrTruthy(psk))

(* C2: for every key K, connect(psk=K) and connect(pin="psk:"+K) leave the *)
(* session in pre-shared-key mode with key K, with no Basic-auth           *)
(* credential, with no cookie other than those the probe's own answer set, *)
(* and send no registration request.                                       *)
C2_PskConnect ==
    \A K \in Keys :
        KeyConnect(K) =>
            /\ psk = Some(K)
            /\ auth = None
            /\ \A c \in jar : \E i \in DOMAIN last.log :
                   /\ last.log[i].resp.exc = "none"
                   /\ c \in normalize_cookies(last.log[i].resp.cookies)
            /\ Sent(LAMBDA q : IsRest(q, "actRegister")) = {}

\* connect(psk=K) ran on a session that held a PIN credential and its cookie
C2_Witness ==
    /\ KeyConnect(KEY1)
    /\ last.pre.auth /\ last.pre.cookies
    /\ psk = Some(KEY1) /\ auth = None /\ jar = {}

(* C3: connect(pin=P, clientid, nickname), P not prefixed by "psk:" and no *)
(* psk given, when the registration request succeeds and the probe returns *)
(* a non-empty object, returns without error and leaves the Basic-auth     *)
(* credential with empty username and password P and no pre-shared key.    *)
C3_PinConnect ==
    \A P \in {PIN1} :
        ( /\ PinConnect(P)
          /\ Len(last.log) >= 1
          /\ last.log[1].resp.exc = "none" /\ last.log[1].resp.status = 200
          /\ ~PowerOff(last.log[1].resp)
          /\ Len(last.log) >= 2 =>
                /\ HasResult(last.log[2].resp) /\ ~PowerOff(last.log[2].resp)
                /\ Len(last.log[2].resp.body.result) >= 1
                /\ last.log[2].resp.body.result[1] # EmptyDict )
        => /\ last.err = OK
           /\ auth = Some([login |-> EmptyStr, password |-> P])
           /\ psk = None

\* a PIN connect registered, probed and succeeded
C3_Witness ==
    /\ PinConnect(PIN1)
    /\ Len(last.log) = 2
    /\ IsRest(last.log[1], "actRegister")
    /\ IsRest(last.log[2], "getSystemInformation")
    /\ last.log[2].resp.body = [result |-> <<InfoFull>>]
    /\ last.err = OK

\* the system-info probes the last operation sent
Probes == Sent(LAMBDA q : IsRest(q, "getSystemInformation"))

\* a 200 answer whose result is absent or the empty object
AbsentOrEmpty(resp) ==
    /\ resp.exc = "none" /\ resp.status = 200
    /\ HasKey(resp.body, "result") => resp.body.result = <<EmptyDict>>

\* a 200 answer whose result is a non-empty object
NonEmptyObject(resp) ==
    /\ resp.exc = "none" /\ HasResult(resp)
    /\ Len(resp.body.result) >= 1 /\ resp.body.result[1] # EmptyDict

(* C4 as stated: in either auth mode, connect fails with NotSupported      *)
(* whenever the probe's response has an absent result or an empty object   *)
(* as result, and never when the probe returns a non-empty object.         *)
C4_AsStated ==
    last.op = "connect" =>
        \A i \in Probes :
            /\ AbsentOrEmpty(last.log[i].resp) => last.err = "BraviaTVNotSupported"
            /\ NonEmptyObject(last.log[i].resp) => last.err # "BraviaTVNotSupported"

(* C4 amended: in either auth mode, connect fails with NotSupported        *)
(* whenever the probe request raises no typed error (its answer is not     *)
(* 401, 403 or 404 and is no 200 carrying "not power-on") and the answer   *)
(* has an absent result or an empty object as result; a 200 answer that    *)
(* carries "not power-on" makes connect fail with TurnedOff instead; and   *)
(* connect never fails with NotSupported when the probe returns a          *)
(* non-empty object.                                                       *)
C4_NotSupported ==
    last.op = "connect" =>
        \A i \in Probes :
            /\ ( /\ Answered(last.log[i].resp)
                 /\ HasResult(last.log[i].resp) =>
                        last.log[i].resp.body.result = <<EmptyDict>> )
               => last.err = "BraviaTVNotSupported"
            /\ PowerOff(last.log[i].resp) => last.err = "BraviaTVTurnedOff"
            /\ NonEmptyObject(last.log[i].resp) /\ ~PowerOff(last.log[i].resp)
               => last.err # "BraviaTVNotSupported"

\* a PIN connect registered, got the empty object from the probe and failed
C4_Witness ==
    /\ PinConnect(PIN1)
    /\ Len(last.log) = 2 /\ 2 \in Probes
    /\ last.log[2].resp.body = [result |-> <<EmptyDict>>]
    /\ last.err = "BraviaTVNotSupported"

(* C5: disconnect closes the transport handle if one exists and leaves the *)
(* session with no handle, no Basic-auth credential and no pre-shared key, *)
(* from every reachable state; on an already disconnected session it       *)
(* succeeds and changes nothing.                                           *)
C5_Disconnect ==
    [][last'.op = "disconnect" =>
          /\ last'.err = OK
          /\ session' = None /\ auth' = None /\ psk' = None
          /\ session # None => Val(session) \in closed'
          /\ (session = None /\ auth = None /\ psk = None) =>
                 UNCHANGED <<mac, session, auth, psk, send_ircc_time, commands, jar,
                             closed, made, now, irccAt>>]_vars

\* disconnect ran on a session that held a handle and a Basic-auth credential
C5_Witness ==
    /\ last.op = "disconnect" /\ last.pre.auth
    /\ closed # {} /\ session = None /\ auth = None /\ psk = None

(* C6: disconnect clears the command-name cache, so that no cached command *)
(* code of the cycle it ends remains for the next one.                     *)
C6_DisconnectClearsCache == last.op = "disconnect" => commands = EmptyDict

\* the last operation was a non-empty IRCC send
NonEmptySend == last.op = "send_ircc_req" /\ last.args[1] # ""
Pings == Sent(IsPing)

(* C7: of two consecutive non-empty IRCC sends, the second is preceded by  *)
(* no ping when they are less than 10 minutes apart and by exactly one     *)
(* ping, sent before the command, when they are more than 10 minutes       *)
(* apart; the first non-empty send is also preceded by exactly one ping.   *)
C7_WakeHeuristic ==
    NonEmptySend =>
        /\ (last.prev # None /\ last.at - Val(last.prev) < 10) => Pings = {}
        /\ (last.prev = None \/ last.at - Val(last.prev) > 10) =>
               /\ Pings = {1}
               /\ Len(last.log) = 2
               /\ last.log[2].data.IRCCCode = last.args[1]
        /\ \A i \in DOMAIN last.log : IsIrcc(last.log[i])

\* a send more than 10 minutes after the previous one, with its ping
C7_Witness ==
    /\ NonEmptySend
    /\ last.prev # None /\ last.at - Val(last.prev) > 10
    /\ Pings = {1} /\ Len(last.log) = 2

\* the typed error section 4.2 of the specification gives for an answer
TypedError(resp) ==
    CASE resp.exc = "TimeoutError" -> "BraviaTVConnectionTimeout"
      [] resp.exc \in {"ClientError", "ConnectionError"} -> "BraviaTVConnectionError"
      [] resp.exc = "none" /\ resp.status = 404 -> "BraviaTVNotFound"
      [] resp.exc = "none" /\ resp.status \in {401, 403} -> "BraviaTVAuthError"
      [] OTHER -> OK

(* C8: a failure of the wake ping is never surfaced: whichever typed error *)
(* the ping ends with, the real command is still sent afterwards, the wake *)
(* timestamp is updated and the caller sees only the outcome of the real   *)
(* command.                                                                *)
C8_PingFailureSwallowed ==
    (NonEmptySend /\ 1 \in Pings /\ TypedError(last.log[1].resp) # OK) =>
        /\ Len(last.log) = 2
        /\ IsIrcc(last.log[2]) /\ last.log[2].data.IRCCCode = last.args[1]
        /\ send_ircc_time = Some(last.at)
        /\ last.err = TypedError(last.log[2].resp)
        /\ last.err = OK => last.val = (last.log[2].resp.status = 200)

\* the ping was refused with 401 and the command went through
C8_Witness ==
    /\ NonEmptySend /\ 1 \in Pings
    /\ last.log[1].resp.status = 401
    /\ Len(last.log) = 2 /\ last.log[2].resp.status = 200
    /\ last.err = OK /\ last.val = TRUE

(* C9: send_req maps response status 404 to NotFound and 401 and 403 to    *)
(* AuthError, for any response body and in both JSON and raw mode.         *)
C9_StatusErrors ==
    (last.op = "send_req" /\ last.log[1].resp.exc = "none") =>
        /\ last.log[1].resp.status = 404 => last.err = "BraviaTVNotFound"
        /\ last.log[1].resp.status \in {401, 403} => last.err = "BraviaTVAuthError"

\* a 403 in JSON mode whose body carries the power-off indicator
C9_Witness ==
    /\ last.op = "send_req" /\ last.args[1] = TRUE
    /\ last.log[1].resp.status = 403
    /\ last.log[1].resp.body = [error |-> <<"7", "not power-on">>]
    /\ last.err = "BraviaTVAuthError"

(* C10: a timeout while sending makes send_req fail with ConnectionTimeout *)
(* and a connection-level failure (HTTP client error or OS connection      *)
(* error) makes it fail with ConnectionError, and with no other error.     *)
C10_TransportErrors ==
    last.op = "send_req" =>
        /\ last.log[1].resp.exc = "TimeoutError"
           => last.err = "BraviaTVConnectionTimeout"
        /\ last.log[1].resp.exc \in {"ClientError", "ConnectionError"}
           => last.err = "BraviaTVConnectionError"

\* an OS connection error in raw mode
C10_Witness ==
    /\ last.op = "send_req" /\ last.args[1] = FALSE
    /\ last.log[1].resp.exc = "ConnectionError"
    /\ last.err = "BraviaTVConnectionError"

(* C11: in JSON mode a 200 response whose body carries an error entry with *)
(* "not power-on" makes send_req fail with TurnedOff; a 200 response       *)
(* without it never does, and TurnedOff is never raised in raw mode, for a *)
(* non-200 status or when no response arrived.                             *)
C11_TurnedOff ==
    last.op = "send_req" =>
        ( last.err = "BraviaTVTurnedOff"
          <=> /\ last.args[1] = TRUE
              /\ last.log[1].resp.exc = "none"
              /\ PowerOff(last.log[1].resp) )

\* a JSON request answered 200 with the power-off indicator
C11_Witness ==
    /\ last.op = "send_req" /\ last.args[1] = TRUE
    /\ last.log[1].resp.status = 200
    /\ last.log[1].resp.body = [error |-> <<"7", "not power-on">>]
    /\ last.err = "BraviaTVTurnedOff"

\* the requests for the command table the last operation sent
Fetches == Sent(LAMBDA q : IsRest(q, "getRemoteControllerInfo"))

\* the last operation was send_command with a name the cached table lacks
AbsentFromCache == last.op = "send_command" /\ ~HasKey(commands, last.args[1])

\* ... and which the table the device serves lacks as well
UnknownCommand ==
    AbsentFromCache /\ ~HasKey(CommandDict(CommandTable[2]), last.args[1])

\* an answer to the fetch from which the command table can be read
TableReadable(resp) ==
    /\ Answered(resp)
    /\ HasResult(resp) => Len(resp.body.result) >= 2

(* C12 as stated: send_command(name) returns false, raises nothing and     *)
(* sends no IRCC request, for any name absent from the command table      *)
(* (stated for devices whose answer to the fetch, if one arrives with a    *)
(* result, is a well-formed table).                                        *)
C12_AsStated ==
    ( /\ UnknownCommand
      /\ \A i \in Fetches : HasResult(last.log[i].resp) =>
                                Len(last.log[i].resp.body.result) >= 2 ) =>
        /\ last.err = OK /\ last.val = FALSE
        /\ Sent(IsIrcc) = {}

(* C12 amended: send_command(name) sends no IRCC request (neither wake     *)
(* ping nor command) for any name absent from the command table; it        *)
(* returns false and raises nothing when the table is already cached or    *)
(* its fetch succeeds; when the table has to be fetched and the fetch      *)
(* ends with a typed error, that error propagates to the caller.           *)
C12_UnknownCommand ==
    AbsentFromCache =>
        /\ Sent(IsIrcc) = {}
        /\ (\A i \in Fetches : TableReadable(last.log[i].resp))
           => last.err = OK /\ last.val = FALSE
        /\ \A i \in Fetches :
               TypedError(last.log[i].resp) # OK
               => last.err = TypedError(last.log[i].resp)

\* the table was fetched, holds commands, and lacks the name asked for
C12_Witness ==
    /\ UnknownCommand /\ Fetches = {1}
    /\ commands # EmptyDict
    /\ last.err = OK /\ last.val = FALSE

\* the operations that look a command name up
Lookups == {"get_command_code", "send_command"}

\* the requests of a log that fetch the command table
FetchesIn(log) == {i \in DOMAIN log : IsRest(log[i], "getRemoteControllerInfo")}

JsonError(resp) ==
    IF resp.exc = "none" /\ PowerOff(resp) THEN "BraviaTVTurnedOff" ELSE TypedError(resp)

(* C14: pair(clientid, nickname) sends exactly one accessControl           *)
(* actRegister request, with the pairing PIN "0000" as Basic-auth password *)
(* (empty username) and the parameters [{clientid, nickname, level:        *)
(* private}, [{function: WOL, value: yes}]]; an AuthError from it is       *)
(* swallowed, every other typed error propagates.                          *)
C14_Pair ==
    last.op = "pair" =>
        /\ Len(last.log) = 1
        /\ last.log[1].url = <<"sony", "accessControl">>
        /\ IsRest(last.log[1], "actRegister")
        /\ last.log[1].auth = Some([login |-> EmptyStr, password |-> <<"0", "0", "0", "0">>])
        /\ last.log[1].data.params =
               << [t |-> "dict",
                   v |-> [clientid |-> last.args[1], nickname |-> last.args[2],
                          level |-> "private"]],
                  [t |-> "list",
                   v |-> << [t |-> "dict", v |-> [function |-> "WOL", value |-> "yes"]] >>] >>
        /\ last.err = IF JsonError(last.log[1].resp) = "BraviaTVAuthError"
                      THEN OK
                      ELSE JsonError(last.log[1].resp)

\* the device refused the pairing request with 401 and pair returned normally
C14_Witness ==
    /\ last.op = "pair" /\ Len(last.log) = 1
    /\ last.log[1].resp.exc = "none" /\ last.log[1].resp.status = 401
    /\ last.err = OK

(* C15: turn_on is best-effort: whichever of its steps fail, it raises no  *)
(* typed error, and it returns true.                                       *)
C15_TurnOnBestEffort ==
    last.op = "turn_on" =>
        /\ last.err \notin BraviaTVError
        /\ last.err = OK => last.val = TRUE

\* the last operation was a scope; its body ended early or ran to its end
Scoped == last.op = "async_with"

(* C16: when the session is used as a scoped resource, disconnect runs on  *)
(* every exit from the scope, whether the body returns normally, returns   *)
(* early or raises: the session leaves the scope with no transport handle  *)
(* (the one it used is closed), no credential and no pre-shared key, and   *)
(* an error raised in the body still reaches the caller.                   *)
C16_ScopedDisconnect ==
    Scoped =>
        /\ session = None /\ auth = None /\ psk = None
        /\ \A i \in DOMAIN last.log : last.log[i].handle \in closed
        /\ \A i \in DOMAIN last.log :
               JsonError(last.log[i].resp) # OK
               => last.err = JsonError(last.log[i].resp)
        /\ (\A i \in DOMAIN last.log : JsonError(last.log[i].resp) = OK)
           => last.err \in {OK, "BraviaTVNotSupported"}

\* the body raised a timeout after registering: the error reached the caller
\* and the session was disconnected
C16_Witness ==
    /\ Scoped /\ Len(last.log) = 2
    /\ last.log[2].resp.exc = "TimeoutError"
    /\ last.err = "BraviaTVConnectionTimeout"
    /\ session = None /\ auth = None /\ psk = None /\ closed # {}

\* the requests of the last operation that are not IRCC wake pings
OwnRequests == {i \in DOMAIN last.log : ~IsPing(last.log[i])}

(* C17: nothing is retried: a send_req call issues exactly one POST        *)
(* whatever its outcome, and so do the REST calls built on it              *)
(* (send_rest_req in get_system_info, send_rest_quick in                   *)
(* set_power_status); send_ircc_req issues its own request once, and the   *)
(* only request added to it is one wake ping sent before a non-empty code. *)
C17_NoRetry ==
    /\ last.op \in {"send_req", "get_system_info", "set_power_status"}
       => Len(last.log) = 1
    /\ last.op = "send_ircc_req" =>
           /\ last.log # <<>>
           /\ IsIrcc(last.log[Len(last.log)])
           /\ last.log[Len(last.log)].data.IRCCCode = last.args[1]
           /\ last.args[1] = "" => Len(last.log) = 1
           /\ last.args[1] # "" => (OwnRequests = {Len(last.log)} /\ Len(last.log) <= 2)

\* an IRCC command that timed out after its ping: two requests, no third
C17_Witness ==
    /\ last.op = "send_ircc_req" /\ last.args[1] # ""
    /\ Len(last.log) = 2
    /\ last.log[2].resp.exc = "TimeoutError"
    /\ last.err = "BraviaTVConnectionTimeout"

(* C18: every request carries the auth of the session's current mode and   *)
(* only that: a request that carries the X-Auth-PSK header carries no      *)
(* Basic credential, one that carries a Basic credential carries no        *)
(* X-Auth-PSK header, and the header and the credential are those of the   *)
(* session (the key; empty username and the PIN).                          *)
C18_AuthOfModeOnly ==
    \A i \in DOMAIN last.log :
        /\ ~(HasKey(last.log[i].headers, "X-Auth-PSK") /\ last.log[i].auth # None)
        /\ HasKey(last.log[i].headers, "X-Auth-PSK")
           => last.log[i].headers["X-Auth-PSK"] = KEY1
        /\ last.log[i].auth # None
           => /\ Val(last.log[i].auth).login = EmptyStr
              /\ Val(last.log[i].auth).password \in {PIN1, <<"0", "0", "0", "0">>}

(* C19: the transport handle is created lazily by the first request of a   *)
(* session that has none and is then shared: an operation creates a handle *)
(* only when it sends a request while the session has none, and then       *)
(* exactly one; every request goes through the session's handle (the one   *)
(* supplied at construction included), which only disconnect removes; and  *)
(* no request goes through a handle that disconnect has closed.            *)
C19_SharedHandle ==
    [][/\ \A i \in DOMAIN last'.log :
              /\ last'.log[i].handle \notin closed
              /\ last'.log[i].handle = IF session # None THEN Val(session) ELSE made + 1
       /\ made' = IF session = None /\ last'.log # <<>> THEN made + 1 ELSE made
       /\ last'.log # <<>> => session' = Some(last'.log[1].handle)
       /\ (session # None /\ last'.op # "disconnect") => session' = session
       /\ closed' # closed => last'.op = "disconnect"]_vars

\* after a disconnect, a second handle was created and used, not the closed one
C19_Witness ==
    /\ last.op = "connect" /\ Len(last.log) = 2
    /\ closed = {1} /\ made = 2 /\ session = Some(2)
    /\ \A i \in DOMAIN last.log : last.log[i].handle = 2

(* C20: a system-info query (direct, or as the probe of connect) sets the  *)
(* session's mac to the returned macAddr only when the mac was unknown: a  *)
(* mac that is already known is left unchanged, and an operation whose     *)
(* query got no macAddr never changes the mac.                             *)
C20_MacOnlyWhenUnknown ==
    [][last'.op \in {"get_system_info", "connect"} =>
          /\ mac # None => mac' = mac
          /\ (\A i \in DOMAIN last'.log :
                  ~( /\ IsRest(last'.log[i], "getSystemInformation")
                     /\ NonEmptyObject(last'.log[i].resp)
                     /\ HasKey(last'.log[i].resp.body.result[1], "macAddr") ))
             => mac' = mac]_vars

\* the sequence the specification says is sent for params p
AsSequence(p) ==
    IF p.t = "none" THEN <<>>
    ELSE IF p.t = "list" THEN p.v
    ELSE <<p>>

(* C21: send_rest_req always sends params as an ordered sequence: the      *)
(* empty sequence when none are given, the given sequence unchanged, and   *)
(* the single-element sequence [v] for every bare value v, the falsy       *)
(* values 0, false, the empty string and the empty mapping included.       *)
C21_ParamsCoerced ==
    last.op = "send_rest_req" =>
        last.log[1].data.params = AsSequence(last.args[1])

(* C22: send_rest_quick returns true if and only if the parsed response    *)
(* contains a result key, and returns false without raising otherwise (a   *)
(* response carrying only an error entry, or an empty response).           *)
C22_QuickResult ==
    (last.op = "send_rest_quick" /\ JsonError(last.log[1].resp) = OK) =>
        /\ last.err = OK
        /\ last.val = HasResult(last.log[1].resp)

\* a 200 response carrying only an error entry: false, nothing raised
C22_Witness ==
    /\ last.op = "send_rest_quick"
    /\ last.log[1].resp.status = 200
    /\ DOMAIN last.log[1].resp.body = {"error"}
    /\ last.err = OK /\ last.val = FALSE

\* the item count a getContentCount response reports
Reported(resp) ==
    IF HasResult(resp) /\ HasKey(resp.body.result[1], "count")
    THEN resp.body.result[1].count ELSE 0

\* ceil(n / PAGE_SIZE)
Batches(n) == (n + PAGE_SIZE - 1) \div PAGE_SIZE

\* the k-th page request (k from 0) of a listing of n items of source
IsPage(q, source, n, k) ==
    /\ IsRest(q, "getContentList")
    /\ q.url = <<"sony", SERVICE_AV_CONTENT>>
    /\ q.data.params = <<PyDict([source |-> source, stIdx |-> PAGE_SIZE * k,
                                cnt |-> Min(PAGE_SIZE, n - PAGE_SIZE * k)])>>

\* the items of the pages answered to requests 2..i, in request order
RECURSIVE Concatenated(_, _)
Concatenated(log, i) ==
    IF i < 2 THEN <<>> ELSE Concatenated(log, i - 1) \o log[i].resp.body.result[1]

\* the counts asked for by requests 2..i, summed
RECURSIVE Requested(_, _)
Requested(log, i) ==
    IF i < 2 THEN 0 ELSE Requested(log, i - 1) + log[i].data.params[1].v.cnt

(* C23: get_content_list_full over a source reporting N items issues one   *)
(* count request first and then page requests, the k-th with start index   *)
(* 50*k and count min(50, N - 50*k); a call that returns has issued        *)
(* exactly ceil(N/50) of them, their counts sum to N, and it returns the   *)
(* pages concatenated in request order; for N = 0 it issues no page        *)
(* request and returns the empty list.                                     *)
C23_Paginated ==
    last.op = "get_content_list_full" =>
        LET n == Reported(last.log[1].resp) IN
        /\ IsRest(last.log[1], "getContentCount")
        /\ last.log[1].data.params = <<PyDict([source |-> last.args[1]])>>
        /\ \A i \in 2..Len(last.log) : IsPage(last.log[i], last.args[1], n, i - 2)
        /\ Len(last.log) <= 1 + Batches(n)
        /\ last.err = OK =>
               /\ Len(last.log) = 1 + Batches(n)
               /\ Requested(last.log, Len(last.log)) = n
               /\ last.val = Concatenated(last.log, Len(last.log))
               /\ n = 0 => Len(last.log) = 1 /\ last.val = <<>>

\* 120 items: three pages asked for, 50 + 50 + 20, and their items returned
C23_Witness ==
    /\ last.op = "get_content_list_full" /\ last.err = OK
    /\ Reported(last.log[1].resp) = MaxItems
    /\ Len(last.log) = 4
    /\ last.log[4].data.params[1].v.cnt < PAGE_SIZE
    /\ Len(last.val) = 4

\* piece i of the header is an expires= clause
IsExpires(header, i) == i > 1 /\ Lower(header[i].k) = "expires"

\* the Set-Cookie header of the response to the operation's request
SetCookie == last.log[1].resp.cookies[1]

(* C24: for every Set-Cookie header containing an expires= clause,         *)
(* normalize_cookies strips that clause and keeps the cookie's name, value *)
(* and every other attribute, whether the other attributes stand before or *)
(* after the expires clause.                                               *)
C24_ExpiresStripped ==
    ( /\ last.op = "send_req" /\ last.log[1].resp.cookies # <<>>
      /\ \E i \in DOMAIN SetCookie : IsExpires(SetCookie, i) ) =>
        [name |-> SetCookie[1].k, value |-> SetCookie[1].v,
         attrs |-> {<<SetCookie[i].k, SetCookie[i].v>> :
                       i \in {j \in 2..Len(SetCookie) : ~IsExpires(SetCookie, j)}}]
            \in jar

\* the cookies a response sets, normalized
SetBy(q) == IF q.resp.exc = "none" THEN normalize_cookies(q.resp.cookies) ELSE {}

\* the operation clears the cookie store: a connect in pre-shared-key mode,
\* or a disconnect
ClearsStore(l) ==
    \/ l.op = "disconnect"
    \/ l.op = "connect" /\ ConnectPsk(l.args[1], l.args[2]) # None

(* C25: whenever a response carries Set-Cookie headers, send_req has       *)
(* merged the normalized cookies into the session's cookie store by the    *)
(* time it returns or raises, and the stored cookies persist across later  *)
(* calls, replaced only by a later cookie of the same name, until the      *)
(* store is cleared by a pre-shared-key connect or the handle is released  *)
(* by disconnect.                                                          *)
C25_CookiesPersist ==
    [][/\ \A i \in DOMAIN last'.log : \A c \in SetBy(last'.log[i]) :
              \/ c \in jar'
              \/ \E j \in (i + 1)..Len(last'.log) :
                     \E d \in SetBy(last'.log[j]) : d.name = c.name
       /\ ~ClearsStore(last') =>
              \A c \in jar :
                  \/ c \in jar'
                  \/ \E j \in DOMAIN last'.log :
                         \E d \in SetBy(last'.log[j]) : d.name = c.name /\ d \in jar'
       /\ jar' # jar => (ClearsStore(last') \/ \E j \in DOMAIN last'.log :
                                                  SetBy(last'.log[j]) # {})]_vars

\* a request that raised AuthError on a session holding a cookie from an
\* earlier response: the cookie is still stored
C25_Witness ==
    /\ last.op = "send_req" /\ last.err = "BraviaTVAuthError"
    /\ last.pre.cookies
    /\ last.log[1].resp.cookies = <<>>
    /\ jar = normalize_cookies(<<AuthCookie>>)

(* C26: on a 200 response without a power-off indicator, send_req raises   *)
(* nothing and returns the parsed JSON body unchanged in JSON mode and the *)
(* boolean true in raw mode.                                               *)
C26_Returns200 ==
    ( /\ last.op = "send_req"
      /\ last.log[1].resp.exc = "none" /\ last.log[1].resp.status = 200
      /\ ~PowerOff(last.log[1].resp) ) =>
        /\ last.err = OK
        /\ IF last.args[1] THEN last.val = last.log[1].resp.body
                           ELSE last.val = TRUE

\* a JSON request answered 200 with a system-info result: the body comes back
C26_Witness ==
    /\ last.op = "send_req" /\ last.args[1] = TRUE /\ last.err = OK
    /\ last.log[1].resp.status = 200
    /\ last.log[1].resp.body = [result |-> <<InfoFull>>]
    /\ last.val = [result |-> <<InfoFull>>]

\* a hardware address of six bytes: twelve hexadecimal digits, bare or in
\* pairs separated by colons
Colons == {3, 6, 9, 12, 15}
SixBytes(macAddr) ==
    \/ Len(macAddr) = 12 /\ \A i \in 1..12 : IsHexDigit(macAddr[i])
    \/ /\ Len(macAddr) = 17
       /\ \A i \in 1..17 : IF i \in Colons THEN macAddr[i] = ":"
                                           ELSE IsHexDigit(macAddr[i])

\* byte k (from 1) of a six-byte hardware address
MacByte(macAddr, k) ==
    LET at == IF Len(macAddr) = 12 THEN 2 * k - 1 ELSE 3 * k - 2
    IN  16 * HexValue(macAddr[at]) + HexValue(macAddr[at + 1])

\* six bytes 0xFF followed by sixteen repetitions of the six bytes of macAddr
IsMagic(payload, macAddr) ==
    /\ Len(payload) = 6 + 16 * 6
    /\ \A i \in 1..6 : payload[i] = 255
    /\ \A i \in 7..Len(payload) : payload[i] = MacByte(macAddr, ((i - 7) % 6) + 1)

\* one UDP datagram broadcast to port 9
OneBroadcast ==
    /\ Len(last.packets) = 1
    /\ last.packets[1].type = "SOCK_DGRAM" /\ last.packets[1].broadcast
    /\ last.packets[1].host = "<broadcast>" /\ last.packets[1].port = 9

(* C27 as stated: send_wol_req returns false and sends no packet when the  *)
(* session's mac is unknown; otherwise (the socket accepting the packet)   *)
(* it broadcasts exactly one UDP packet to port 9 whose payload is 6 bytes *)
(* 0xFF followed by 16 repetitions of the MAC, and returns true.           *)
C27_AsStated ==
    (last.op = "send_wol_req" /\ last.args[1] = "sent") =>
        IF mac = None
        THEN last.err = OK /\ last.val = FALSE /\ last.packets = <<>>
        ELSE last.err = OK /\ last.val = TRUE /\ OneBroadcast

(* C27: send_wol_req returns false and sends no packet when the session's  *)
(* mac is unknown.  When the mac is a six-byte address written as twelve   *)
(* hexadecimal digits, bare or colon-separated, and the socket accepts the *)
(* packet, it broadcasts exactly one UDP packet to port 9 whose payload is *)
(* 6 bytes 0xFF followed by 16 repetitions of the 6-byte MAC, and returns  *)
(* true.  A mac that is not hexadecimal once its colons are removed makes  *)
(* it raise ValueError, and a socket error propagates; no packet is sent   *)
(* in either case.  It never sends an HTTP request.                        *)
C27_MagicPacket ==
    last.op = "send_wol_req" =>
        /\ last.log = <<>>
        /\ mac = None => last.err = OK /\ last.val = FALSE /\ last.packets = <<>>
        /\ (mac # None /\ SixBytes(Val(mac)) /\ last.args[1] = "sent") =>
               /\ last.err = OK /\ last.val = TRUE
               /\ OneBroadcast
               /\ IsMagic(last.packets[1].payload, Val(mac))
        /\ (mac # None /\ ~IsHex(Remove(Val(mac), ":"))) =>
               last.err = "ValueError" /\ last.packets = <<>>
        /\ (mac # None /\ SixBytes(Val(mac)) /\ last.args[1] # "sent") =>
               last.err = last.args[1] /\ last.packets = <<>>

\* the packet for aa:bb:cc:dd:ee:ff went out
C27_Witness ==
    /\ last.op = "send_wol_req" /\ mac = Some(MAC_LOWER)
    /\ last.val = TRUE /\ Len(last.packets) = 1
    /\ last.packets[1].payload[7] = 170 /\ last.packets[1].payload[102] = 255

\* the pre-shared key the last connect was called with, if any
ConnectKeyArg == ConnectPsk(last.args[1], last.args[2])

(* C28: connect orders its requests.  In PIN mode the accessControl        *)
(* actRegister request is sent first and the system-info probe only after  *)
(* it returned without raising: if registration fails, its error           *)
(* propagates and no probe is sent.  In pre-shared-key mode the probe is   *)
(* the only request.  In both modes a connect that returns without error   *)
(* has issued exactly one system-info probe, as its last request, and the  *)
(* probe carries the credentials of the mode.                              *)
C28_ConnectOrder ==
    last.op = "connect" =>
        /\ ConnectKeyArg # None =>
               /\ Len(last.log) = 1
               /\ IsRest(last.log[1], "getSystemInformation")
               /\ last.log[1].auth = None
               /\ StrTruthy(ConnectKeyArg) =>
                      /\ HasKey(last.log[1].headers, "X-Auth-PSK")
                      /\ last.log[1].headers["X-Auth-PSK"] = Val(ConnectKeyArg)
        /\ PinConnect(PIN1) =>
               /\ Len(last.log) >= 1
               /\ IsRest(last.log[1], "actRegister")
               /\ last.log[1].url = <<"sony", "accessControl">>
               /\ JsonError(last.log[1].resp) # OK =>
                      Len(last.log) = 1 /\ last.err = JsonError(last.log[1].resp)
               /\ JsonError(last.log[1].resp) = OK =>
                      /\ Len(last.log) = 2
                      /\ IsRest(last.log[2], "getSystemInformation")
                      /\ last.log[2].auth = Some([login |-> EmptyStr, password |-> PIN1])
                      /\ ~HasKey(last.log[2].headers, "X-Auth-PSK")
        /\ (ConnectKeyArg = None /\ ~PinConnect(PIN1)) => last.log = <<>>
        /\ last.err = OK => Probes = {Len(last.log)}

\* a PIN connect whose registration was refused: one request, no probe
C28_Witness ==
    /\ PinConnect(PIN1)
    /\ Len(last.log) = 1 /\ IsRest(last.log[1], "actRegister")
    /\ last.log[1].resp.status = 401
    /\ last.err = "BraviaTVAuthError"
    /\ Probes = {}

\* the power-status answer reports "active"
ReportsActive(resp) ==
    /\ HasResult(resp) /\ Len(resp.body.result) >= 1
    /\ Get(resp.body.result[1], "status", "off") = "active"

\* the request is setPowerStatus(true)
IsPowerOnRequest(q) ==
    /\ IsRest(q, "setPowerStatus") /\ q.url = <<"sony", SERVICE_SYSTEM>>
    /\ q.data.params = <<PyDict([status |-> TRUE])>>

\* the request is the IRCC send of the fixed power-on code
IsPowerCode(q) == IsIrcc(q) /\ q.data.IRCCCode = CODE_POWER_ON

(* C29: turn_on orders its steps: the magic packet (if the mac is known)   *)
(* first, before any request, then a power-status query; only when the     *)
(* query returned a status that is not "active" does it send               *)
(* setPowerStatus(true) and then the fixed IRCC power-on code (preceded at *)
(* most by the wake ping of the IRCC channel), in that order, the IRCC     *)
(* send being attempted even when setPowerStatus failed; when the status   *)
(* is "active" neither is sent.                                            *)
C29_TurnOnOrder ==
    last.op = "turn_on" =>
        /\ mac = None => last.packets = <<>>
        /\ (mac # None /\ last.args[1] = "sent") =>
               Len(last.packets) = 1 /\ last.packets[1].before = 0
        /\ (mac # None /\ last.args[1] # "sent") =>
               last.packets = <<>> /\ last.log = <<>> /\ last.err = last.args[1]
        /\ (mac = None \/ last.args[1] = "sent") =>
               /\ Len(last.log) >= 1
               /\ IsRest(last.log[1], "getPowerStatus")
               /\ Sent(LAMBDA q : IsRest(q, "getPowerStatus")) = {1}
               /\ (JsonError(last.log[1].resp) # OK \/ ReportsActive(last.log[1].resp)) =>
                      Len(last.log) = 1
               /\ (JsonError(last.log[1].resp) = OK /\ ~ReportsActive(last.log[1].resp)) =>
                      /\ Len(last.log) >= 3
                      /\ IsPowerOnRequest(last.log[2])
                      /\ Sent(IsPowerOnRequest) = {2}
                      /\ Sent(IsPowerCode) = {Len(last.log)}
                      /\ \A i \in 3..(Len(last.log) - 1) : IsPing(last.log[i])

\* the mac known, the packet sent, the device not active, setPowerStatus
\* refused with 403, and the power code sent all the same
C29_Witness ==
    /\ last.op = "turn_on" /\ mac # None /\ Len(last.packets) = 1
    /\ Len(last.log) >= 3
    /\ ~ReportsActive(last.log[1].resp)
    /\ IsPowerOnRequest(last.log[2]) /\ last.log[2].resp.status = 403
    /\ IsPowerCode(last.log[Len(last.log)])

\* an answer whose status is none of 200, 401, 403 and 404
OtherStatus(resp) == resp.exc = "none" /\ resp.status \notin {200, 401, 403, 404}

\* the last request of the last operation
FinalRequest == last.log[Len(last.log)]

(* C30: for a response whose status is none of 200, 401, 403 and 404 (for  *)
(* example 500), send_req raises nothing and returns the empty default,    *)
(* the empty mapping in JSON mode and false in raw mode, whatever the body *)
(* holds; so send_rest_quick returns false and an IRCC send returns false  *)
(* for such a response.                                                    *)
C30_OtherStatus ==
    ( /\ last.op \in {"send_req", "send_rest_quick", "send_ircc_req"}
      /\ last.log # <<>>
      /\ OtherStatus(FinalRequest.resp) ) =>
        /\ last.err = OK
        /\ IF last.op = "send_req" /\ last.args[1]
           THEN last.val = EmptyDict
           ELSE last.val = FALSE

\* send_rest_quick answered 500 with a body that holds a result: false
C30_Witness ==
    /\ last.op = "send_rest_quick" /\ Len(last.log) = 1
    /\ last.log[1].resp.status = 500
    /\ HasKey(last.log[1].resp.body, "result")
    /\ last.err = OK /\ last.val = FALSE

\* the Basic-auth credential register builds from a PIN
Credential(pin) == Some([login |-> EmptyStr, password |-> pin])

\* the session holds a credential of either mode
HasCredential == auth # None \/ psk # None

\* a connect without pre-shared key that lacks pin, clientid or nickname
IncompleteConnect ==
    /\ last.op = "connect" /\ ConnectKeyArg = None
    /\ (last.args[1] = None \/ last.args[3] = None \/ last.args[4] = None)

(* C31 as stated: only disconnect returns the session to auth mode none:   *)
(* a session that holds a credential keeps one through every operation     *)
(* other than disconnect, whether the operation returns or fails.          *)
C31_AsStated ==
    [][(HasCredential /\ auth' = None /\ psk' = None) => last'.op = "disconnect"]_vars

(* C31: a failed operation does not roll credentials back.  register sets  *)
(* the Basic-auth credential to the given PIN before sending, so after     *)
(* register, pair or connect(pin=P, clientid, nickname) returns or fails   *)
(* (AuthError included) the credential is still that PIN, and after        *)
(* connect with pre-shared key K returns or fails the pre-shared key is    *)
(* still K.  A session holding a credential is returned to no credential   *)
(* only by disconnect or by a connect without pre-shared key that lacks    *)
(* pin, clientid or nickname: it resets the pre-shared key and fails its   *)
(* assertion before registering.                                           *)
C31_NoRollback ==
    [][/\ last'.op = "register" => auth' = Credential(last'.args[1])
       /\ last'.op = "pair" => auth' = Credential(PAIR_PIN)
       /\ PinConnect(PIN1)' => (auth' = Credential(PIN1) /\ psk' = None)
       /\ (last'.op = "connect" /\ ConnectKeyArg' # None) => psk' = ConnectKeyArg'
       /\ (HasCredential /\ auth' = None /\ psk' = None) =>
              \/ last'.op = "disconnect"
              \/ IncompleteConnect' /\ last'.err = "AssertionError" /\ last'.log = <<>>]_vars

\* a PIN connect whose registration was refused: the PIN is still the credential
C31_Witness ==
    /\ PinConnect(PIN1) /\ last.err = "BraviaTVAuthError"
    /\ Len(last.log) = 1 /\ last.log[1].resp.status = 401
    /\ auth = Credential(PIN1) /\ psk = None

(* C32: disconnect leaves mac and the wake timestamp unchanged (host is    *)
(* assigned by the constructor only), so a non-empty IRCC send made within *)
(* 10 minutes of the previous one is not preceded by a wake ping, even     *)
(* when a disconnect and a new connect happened in between.                *)
C32_WakeSurvivesDisconnect ==
    [][/\ last'.op = "disconnect" =>
              (mac' = mac /\ send_ircc_time' = send_ircc_time)
       /\ (NonEmptySend' /\ last'.prev # None /\ last'.at - Val(last'.prev) <= 10) =>
              (Pings' = {} /\ Len(last'.log) = 1)]_vars

\* a send without ping whose predecessor went through a handle that was
\* closed since, on a session connected anew with a pre-shared key
C32_Witness ==
    /\ NonEmptySend /\ Pings = {} /\ Len(last.log) = 1
    /\ last.prev # None /\ last.at - Val(last.prev) <= 10
    /\ last.prevOn # None /\ Val(last.prevOn) \in closed
    /\ last.log[1].handle \notin closed
    /\ psk = Some(KEY1) /\ HasKey(last.log[1].headers, "X-Auth-PSK")

\* the last operation was an empty-code IRCC send, a ping
EmptySend == last.op = "send_ircc_req" /\ last.args[1] = ""

(* C33: the wake timestamp is set by every non-empty IRCC send, to the     *)
(* time read at the start of that send, whether or not the ping or the     *)
(* command succeeds, and is changed by nothing else, an empty-code send    *)
(* included; hence a non-empty send is preceded by a ping if and only if   *)
(* no non-empty send happened before or the previous non-empty send        *)
(* started more than 10 minutes earlier (a gap of exactly 10 minutes gives *)
(* no ping), and a ping never triggers a further ping.                     *)
C33_WakeTimestamp ==
    /\ send_ircc_time = irccAt
    /\ NonEmptySend =>
           /\ send_ircc_time = Some(last.at)
           /\ last.log[Len(last.log)].data.IRCCCode = last.args[1]
           /\ IF last.prev = None \/ last.at - Val(last.prev) > 10
              THEN Pings = {1} /\ Len(last.log) = 2
              ELSE Pings = {} /\ Len(last.log) = 1
    /\ EmptySend =>
           /\ send_ircc_time = last.prev
           /\ Len(last.log) = 1

\* a command sent exactly 10 minutes after the previous one and lost: no
\* ping, and the timestamp moved to the start of this send
C33_Witness ==
    /\ NonEmptySend
    /\ last.prev # None /\ last.at - Val(last.prev) = 10
    /\ Pings = {} /\ Len(last.log) = 1
    /\ last.err = "BraviaTVConnectionTimeout"
    /\ send_ircc_time = Some(last.at)

\* a send_req that was suspended at its POST when a disconnect began has ended
Overtaken == tasks.req.stage = "done" /\ tasks.req.overlapped /\ tasks.req.resp # NoResp

\* the response it resumed with carries Set-Cookie headers
CarriesCookies(resp) == resp.exc = "none" /\ resp.cookies # <<>>

(* C34 as stated: if disconnect runs while a request of the same session   *)
(* is suspended awaiting its HTTP response, the suspended send_req still   *)
(* ends with a value or one of the typed errors and never uses the         *)
(* transport handle (the cookie merge included) after disconnect has       *)
(* released it, and the session ends with no transport handle.             *)
C34_AsStated ==
    Overtaken =>
        /\ tasks.req.err \in {OK} \cup BraviaTVError
        /\ ~(tasks.req.merged /\ tasks.req.resumedClosed)
        /\ ~tasks.closing => session = None

(* C34: if disconnect runs while a request of the same session is          *)
(* suspended awaiting its HTTP response, the session ends with no          *)
(* transport handle and the resumed send_req creates none.  The suspended  *)
(* send_req ends with a value or a typed error when the POST failed or its *)
(* response carries no Set-Cookie header.  When the response carries       *)
(* Set-Cookie headers and disconnect has completed, the cookie merge finds *)
(* no handle and send_req raises AttributeError, which is no typed error;  *)
(* when disconnect is still awaiting close(), the cookies are merged into  *)
(* the jar of the handle being closed.                                     *)
C34_DisconnectDuringRequest ==
    [][/\ Overtaken' =>
              /\ tasks'.req.err \in {OK, "AttributeError"} \cup BraviaTVError
              /\ tasks'.req.err = "AttributeError"
                     <=> (CarriesCookies(tasks'.req.resp) /\ tasks'.req.resumedOn = None)
              /\ tasks'.req.merged
                     <=> (CarriesCookies(tasks'.req.resp) /\ tasks'.req.resumedOn # None)
              /\ tasks'.req.merged => tasks'.req.resumedOn = tasks'.req.handle
              /\ tasks'.req.err = OK =>
                     tasks'.req.val =
                         IF ~tasks'.req.json THEN PyBool(tasks'.req.resp.status = 200)
                         ELSE IF tasks'.req.resp.status = 200 THEN tasks'.req.resp.body
                         ELSE EmptyDict
              /\ ~tasks'.closing => session' = None
       /\ (tasks.req.stage = "awaiting" /\ tasks'.req.stage = "done") =>
              (session' = session /\ made' = made /\ closed' = closed)
       /\ (tasks.closing /\ ~tasks'.closing) => session' = None]_vars

\* the response arrived with a cookie after disconnect had completed:
\* AttributeError, and the session has no handle
C34_Witness ==
    /\ Overtaken /\ ~tasks.closing
    /\ CarriesCookies(tasks.req.resp) /\ tasks.req.resumedOn = None
    /\ tasks.req.err = "AttributeError"
    /\ session = None /\ tasks.req.handle # None /\ Val(tasks.req.handle) \in closed

====
